---- MODULE Spec2Model ----
(***************************************************************************)
(* Verification model of jluszcz/AdventOfCode2023.                         *)
(*                                                                         *)
(* Day 5 (src/day05/src/main.rs): the range mapping engine.  Intervals are *)
(* records [start, len] (struct Range), rules are records [from, to, len]  *)
(* (struct MappingRange), a stage is a record [from, to, entries] (struct  *)
(* Mapping) and the stage graph is a function from the categories that     *)
(* hold a stage to that stage (Almanac.mappings, a HashMap).               *)
(*                                                                         *)
(* All arithmetic is on naturals far below 2^64, so no usize addition      *)
(* wraps within the bounds explored here.                                  *)
(***************************************************************************)
EXTENDS Integers, Sequences, FiniteSets, TLC

VARIABLES
    \* --- Almanac::map applied to one interval and one stage (SpecMap) ---
    mEntries,   \* Mapping.entries of the stage under test
    mRange,     \* the interval handed to Almanac::map
    mOut,       \* the Vec<Range> that Almanac::map returned
    mpc,        \* "ready" before the call, "called" after it
    \* --- Almanac::seed_range_to_min_location (Spec) ---
    seeds,      \* Almanac.seeds
    mappings,   \* Almanac.mappings
    entry,      \* local `entry`
    ranges,     \* local `ranges`
    pc,         \* "idle", "loop", "sort", "done", "error", "panic"
    result,     \* the usize returned in Ok(..), -1 while there is none
    iters,      \* number of iterations of `loop` entered so far
    outcomes,   \* what the earlier calls on this almanac returned
    \* --- MappingRange::from_str (SpecParse) ---
    line,       \* the input line, a sequence of characters
    parsed,     \* the Result returned by from_str
    ppc,        \* "ready" before the call, "called" after it
    \* --- Hand::from_str with HandType::score (SpecScore) ---
    sStr,       \* the five characters of the hand
    sHand,      \* the Result returned by Hand::from_str
    spc,        \* "ready" before the call, "called" after it
    \* --- Hand::cmp on two parsed hands (SpecCmp) ---
    cA,         \* self
    cB,         \* other
    cOrd,       \* the Ordering returned by cmp, "None" before the call
    cpc,        \* "ready" before the call, "called" after it
    \* --- Hands::try_from (SpecHands) ---
    tLines,     \* the input lines
    tHands,     \* the Result returned by try_from
    tpc,        \* "ready" before the call, "called" after it
    \* --- util::grid_neighbors (SpecGrid) ---
    gGrid,      \* the grid, as the lengths of its rows
    gX,         \* argument x
    gY,         \* argument y
    gDiag,      \* argument include_diagonal
    gOut,       \* what the call returned: a Vec of cells, or a panic
    gpc,        \* "ready" before the call, "called" after it
    \* --- OasisReadings::next_value (SpecOasis) ---
    oReadings,  \* self.0, the readings
    oOut,       \* what the call returned: an isize, or a panic
    opc,        \* "ready" before the call, "called" after it
    \* --- CalibrationValue::from_str (SpecCal) ---
    dLine,      \* the input line, a sequence of characters
    dOrder,     \* the order in which the HashMap yields its entries
    dOut,       \* the Result returned by from_str
    dpc,        \* "ready" before the call, "called" after it
    \* --- day 4: Card::from_str, winner_ct and value (SpecCard) ---
    kLine,      \* the input line, a sequence of characters
    kCard,      \* the Result returned by Card::from_str
    kRet,       \* the method called last and what it returned
    kCalls,     \* number of calls of winner_ct and value so far
    kpc,        \* "ready" before from_str, "built" after it
    \* --- EngineSchematic::try_from and gears (SpecEngine) ---
    eLines,     \* the input lines, sequences of characters
    eSchem,     \* the Result returned by EngineSchematic::try_from
    eGears,     \* what gears() returned: a Vec of gears, or a panic
    epc,        \* "ready", "built" after try_from, "called" after gears
    \* --- Almanac::try_from on the seed line (SpecSeeds) ---
    aLine,      \* the only line of the input, a sequence of characters
    aOut,       \* what try_from returned: status "ok", "err" or "panic", and the seeds
    apc,        \* "ready" before the call, "called" after it
    \* --- day 8, Map::steps (SpecSteps) ---
    wMap,       \* the Map: directions and nodes
    wStart,     \* the argument `start`
    wCurr,      \* local `curr`
    wSteps,     \* local `steps`
    wpc,        \* "ready", "loop", "done", "error", "panic"
    \* --- day 10, Map::cycle_len (SpecPipes) ---
    lMap,       \* the Map: grid and start
    lWalk,      \* locals curr, prev and len of cycle_len, and the value returned
    lpc         \* "ready", "loop", "done", or the panic: "todo", "unreachable", "index"

mapVars == <<mEntries, mRange, mOut, mpc>>
runVars == <<seeds, mappings, entry, ranges, pc, result, iters, outcomes>>
parseVars == <<line, parsed, ppc>>
scoreVars == <<sStr, sHand, spc>>
cmpVars == <<cA, cB, cOrd, cpc>>
handsVars == <<tLines, tHands, tpc>>
gridVars == <<gGrid, gX, gY, gDiag, gOut, gpc>>
oasisVars == <<oReadings, oOut, opc>>
calVars == <<dLine, dOrder, dOut, dpc>>
cardVars == <<kLine, kCard, kRet, kCalls, kpc>>
engineVars == <<eLines, eSchem, eGears, epc>>
almVars == <<aLine, aOut, apc>>
stepsVars == <<wMap, wStart, wCurr, wSteps, wpc>>
pipeVars == <<lMap, lWalk, lpc>>
vars == <<mapVars, runVars, parseVars, scoreVars, cmpVars, handsVars, gridVars, oasisVars, calVars, cardVars, engineVars, almVars, stepsVars, pipeVars>>

\* what the actions of one part leave alone: the variables of the other parts
notMap == <<runVars, parseVars, scoreVars, cmpVars, handsVars, gridVars, oasisVars, calVars, cardVars, engineVars, almVars, stepsVars, pipeVars>>
notRun == <<mapVars, parseVars, scoreVars, cmpVars, handsVars, gridVars, oasisVars, calVars, cardVars, engineVars, almVars, stepsVars, pipeVars>>
notParse == <<mapVars, runVars, scoreVars, cmpVars, handsVars, gridVars, oasisVars, calVars, cardVars, engineVars, almVars, stepsVars, pipeVars>>
notScore == <<mapVars, runVars, parseVars, cmpVars, handsVars, gridVars, oasisVars, calVars, cardVars, engineVars, almVars, stepsVars, pipeVars>>
notCmp == <<mapVars, runVars, parseVars, scoreVars, handsVars, gridVars, oasisVars, calVars, cardVars, engineVars, almVars, stepsVars, pipeVars>>
notHands == <<mapVars, runVars, parseVars, scoreVars, cmpVars, gridVars, oasisVars, calVars, cardVars, engineVars, almVars, stepsVars, pipeVars>>
notGrid == <<mapVars, runVars, parseVars, scoreVars, cmpVars, handsVars, oasisVars, calVars, cardVars, engineVars, almVars, stepsVars, pipeVars>>
notOasis == <<mapVars, runVars, parseVars, scoreVars, cmpVars, handsVars, gridVars, calVars, cardVars, engineVars, almVars, stepsVars, pipeVars>>
notCal == <<mapVars, runVars, parseVars, scoreVars, cmpVars, handsVars, gridVars, oasisVars, cardVars, engineVars, almVars, stepsVars, pipeVars>>
notCard == <<mapVars, runVars, parseVars, scoreVars, cmpVars, handsVars, gridVars, oasisVars, calVars, engineVars, almVars, stepsVars, pipeVars>>
notEngine == <<mapVars, runVars, parseVars, scoreVars, cmpVars, handsVars, gridVars, oasisVars, calVars, cardVars, almVars, stepsVars, pipeVars>>
notAlm == <<mapVars, runVars, parseVars, scoreVars, cmpVars, handsVars, gridVars, oasisVars, calVars, cardVars, engineVars, stepsVars, pipeVars>>
notSteps == <<mapVars, runVars, parseVars, scoreVars, cmpVars, handsVars, gridVars, oasisVars, calVars, cardVars, engineVars, almVars, pipeVars>>
notPipes == <<mapVars, runVars, parseVars, scoreVars, cmpVars, handsVars, gridVars, oasisVars, calVars, cardVars, engineVars, almVars, stepsVars>>

----------------------------------------------------------------------------
(* Bounds of the explored inputs *)

MaxVal == 2         \* rule from / to and interval start range over 0..MaxVal
MaxLen == 2         \* rule and interval lengths range over 0..MaxLen
MaxRules == 2       \* rules per stage

\* Sequences over S of length at most n
SeqUpTo(S, n) == UNION {[1..k -> S] : k \in 0..n}

Range == [start : 0..MaxVal, len : 0..MaxLen]
MappingRange == [from : 0..MaxVal, to : 0..MaxVal, len : 0..MaxLen]

----------------------------------------------------------------------------
(* enum Entry *)

Entry ==
    {"Seed", "Soil", "Fertilizer", "Water", "Light", "Temperature",
     "Humidity", "Location"}

----------------------------------------------------------------------------
(* Option<Vec<Range>> *)

None == [some |-> FALSE, ranges |-> <<>>]
Some(v) == [some |-> TRUE, ranges |-> v]

----------------------------------------------------------------------------
(* impl MappingRange *)

\* adjust with the two directions of the shift exchanged
adjust_swapped(self, value) ==
    IF self.from > self.to
    THEN value + (self.from - self.to)
    ELSE value - (self.to - self.from)

\* MappingRange::adjust
adjust(self, value) ==
    IF self.from > self.to
    THEN value - (self.from - self.to)
    ELSE value + (self.to - self.from)

\* transform whose remainder pieces keep the whole length of the input
transform_fullRemainder(self, value) ==
    IF value.start > self.from + self.len \/ value.start + value.len < self.from
    THEN None
    ELSE
        LET value_end == value.start + value.len
            mapping_end == self.from + self.len
        IN  IF value.start >= self.from /\ value_end <= mapping_end
            THEN Some(<<[start |-> adjust(self, value.start), len |-> value.len]>>)
            ELSE IF value.start >= self.from
            THEN LET intersect_len == mapping_end - value.start
                 IN  Some(<<[start |-> adjust(self, value.start + intersect_len),
                             len |-> intersect_len],
                            [start |-> value.start + intersect_len,
                             len |-> value.len]>>)
            ELSE LET intersect_len == self.from - value.start
                 IN  Some(<<[start |-> value.start,
                             len |-> value.len],
                            [start |-> adjust(self, value.start + intersect_len),
                             len |-> intersect_len]>>)

\* MappingRange::transform
transform(self, value) ==
    IF value.start > self.from + self.len \/ value.start + value.len < self.from
    THEN None
    ELSE
        LET value_end == value.start + value.len
            mapping_end == self.from + self.len
        IN  IF value.start >= self.from /\ value_end <= mapping_end
            THEN Some(<<[start |-> adjust(self, value.start), len |-> value.len]>>)
            ELSE IF value.start >= self.from
            THEN LET intersect_len == mapping_end - value.start
                 IN  Some(<<[start |-> adjust(self, value.start + intersect_len),
                             len |-> intersect_len],
                            [start |-> value.start + intersect_len,
                             len |-> value.len - intersect_len]>>)
            ELSE LET intersect_len == self.from - value.start
                 IN  Some(<<[start |-> value.start,
                             len |-> value.len - intersect_len],
                            [start |-> adjust(self, value.start + intersect_len),
                             len |-> intersect_len]>>)

\* the subtractions MappingRange::adjust evaluates, in order, each as
\* <<minuend, subtrahend>>
adjust_subtractions(self, v) ==
    IF self.from > self.to
    THEN <<<<self.from, self.to>>, <<v, self.from - self.to>>>>
    ELSE <<<<self.to, self.from>>>>

\* transform_subtractions without the first test of the guard
transform_subtractions_halfGuard(self, v) ==
    IF v.start + v.len < self.from
    THEN <<>>
    ELSE
        LET value_end == v.start + v.len
            mapping_end == self.from + self.len
        IN  IF v.start >= self.from /\ value_end <= mapping_end
            THEN adjust_subtractions(self, v.start)
            ELSE IF v.start >= self.from
            THEN LET intersect_len == mapping_end - v.start
                 IN  <<<<mapping_end, v.start>>>>
                        \o adjust_subtractions(self, v.start + intersect_len)
                        \o <<<<v.len, intersect_len>>>>
            ELSE LET intersect_len == self.from - v.start
                 IN  <<<<self.from, v.start>>, <<v.len, intersect_len>>>>
                        \o adjust_subtractions(self, v.start + intersect_len)

\* the subtractions MappingRange::transform evaluates on the branch it takes,
\* those of its calls of adjust included, in order, each as
\* <<minuend, subtrahend>>
transform_subtractions(self, v) ==
    IF v.start > self.from + self.len \/ v.start + v.len < self.from
    THEN <<>>
    ELSE
        LET value_end == v.start + v.len
            mapping_end == self.from + self.len
        IN  IF v.start >= self.from /\ value_end <= mapping_end
            THEN adjust_subtractions(self, v.start)
            ELSE IF v.start >= self.from
            THEN LET intersect_len == mapping_end - v.start
                 IN  <<<<mapping_end, v.start>>>>
                        \o adjust_subtractions(self, v.start + intersect_len)
                        \o <<<<v.len, intersect_len>>>>
            ELSE LET intersect_len == self.from - v.start
                 IN  <<<<self.from, v.start>>, <<v.len, intersect_len>>>>
                        \o adjust_subtractions(self, v.start + intersect_len)

----------------------------------------------------------------------------
(* impl Mapping *)

\* Mapping::get that goes on after a Some: the last Some wins
RECURSIVE GetFrom_lastWins(_, _, _)
GetFrom_lastWins(entries, i, range) ==
    IF i > Len(entries)
    THEN None
    ELSE LET rest == GetFrom_lastWins(entries, i + 1, range)
         IN  IF rest.some THEN rest ELSE transform(entries[i], range)

\* Mapping::get over the rules entries[i..]: the first Some wins
RECURSIVE GetFrom(_, _, _)
GetFrom(entries, i, range) ==
    IF i > Len(entries)
    THEN None
    ELSE LET r == transform(entries[i], range)
         IN  IF r.some THEN r ELSE GetFrom(entries, i + 1, range)

\* Mapping::get
MappingGet(entries, range) == GetFrom(entries, 1, range)

\* Almanac::map once the stage has been found: mapping.get(range).unwrap_or(vec![*range])
MapRanges(entries, range) ==
    LET r == MappingGet(entries, range)
    IN  IF r.some THEN r.ranges ELSE <<range>>

----------------------------------------------------------------------------
(* Almanac::map applied to one interval and one stage *)

Stage == SeqUpTo(MappingRange, MaxRules)

InitMapRun ==
    /\ mEntries \in Stage
    /\ mRange \in Range
    /\ mOut = <<>>
    /\ mpc = "ready"

\* let result = mapping.get(range).unwrap_or_else(|| vec![*range]);
MapCall ==
    /\ mpc = "ready"
    /\ mOut' = MapRanges(mEntries, mRange)
    /\ mpc' = "called"
    /\ UNCHANGED <<mEntries, mRange>>
    /\ UNCHANGED notMap

MapIdle == mEntries = <<>> /\ mRange = [start |-> 0, len |-> 0] /\ mOut = <<>> /\ mpc = "off"

MaxWide == 4        \* fields of the rule and the interval of a one-rule stage

WideRule == [from : 0..MaxWide, to : 0..MaxWide, len : 0..MaxWide]
WideRange == [start : 0..MaxWide, len : 0..MaxWide]

\* Almanac::map on a stage of one rule, over a wider range of values
InitOneRule ==
    /\ mEntries \in {<<r>> : r \in WideRule}
    /\ mRange \in WideRange
    /\ mOut = <<>>
    /\ mpc = "ready"

----------------------------------------------------------------------------
(* impl Almanac *)

\* Result<(Entry, Vec<Range>)>
Err == [ok |-> FALSE, to |-> "Seed", ranges |-> <<>>]
Ok(to, v) == [ok |-> TRUE, to |-> to, ranges |-> v]

\* Almanac::map
AlmanacMap(maps, range, from) ==
    IF from \notin DOMAIN maps
    THEN Err
    ELSE Ok(maps[from].to, MapRanges(maps[from].entries, range))

\* ForRanges that puts the pieces of each interval in front of the earlier ones
RECURSIVE ForRanges_prepend(_, _, _, _, _, _)
ForRanges_prepend(maps, rs, i, e, next_entry, next_ranges) ==
    IF i > Len(rs)
    THEN Ok(next_entry, next_ranges)
    ELSE LET r == AlmanacMap(maps, rs[i], e)
         IN  IF ~r.ok
             THEN Err
             ELSE ForRanges_prepend(maps, rs, i + 1, e, r.to, r.ranges \o next_ranges)

\* for range in ranges.iter() { (next_entry, updated_ranges) = self.map(range, entry)?;
\*                              next_ranges.append(&mut updated_ranges); }
\* from index i on, given next_entry and next_ranges so far; `?` returns the Err.
RECURSIVE ForRanges(_, _, _, _, _, _)
ForRanges(maps, rs, i, e, next_entry, next_ranges) ==
    IF i > Len(rs)
    THEN Ok(next_entry, next_ranges)
    ELSE LET r == AlmanacMap(maps, rs[i], e)
         IN  IF ~r.ok
             THEN Err
             ELSE ForRanges(maps, rs, i + 1, e, r.to, next_ranges \o r.ranges)

\* ranges.sort_by(|x, y| x.start.cmp(&y.start)): a stable sort by start
RECURSIVE InsertByStart(_, _)
InsertByStart(sorted, x) ==
    IF sorted = <<>>
    THEN <<x>>
    ELSE IF sorted[Len(sorted)].start <= x.start
    THEN Append(sorted, x)
    ELSE Append(InsertByStart(SubSeq(sorted, 1, Len(sorted) - 1), x), sorted[Len(sorted)])

RECURSIVE SortByStart(_)
SortByStart(rs) ==
    IF rs = <<>>
    THEN <<>>
    ELSE InsertByStart(SortByStart(SubSeq(rs, 1, Len(rs) - 1)), rs[Len(rs)])

MaxIters == 4       \* iterations of `loop` that are followed
MaxRuns == 2        \* calls of seed_range_to_min_location on one almanac

\* the call has returned: Ok(result), Err(..) or a panic
Returned == pc \in {"done", "error", "panic"}

\* Call that keeps the locals of the call before
Call_keepLocals ==
    /\ \/ pc = "idle" /\ outcomes' = outcomes /\ entry' = "Seed" /\ ranges' = seeds
       \/ /\ Returned
          /\ Len(outcomes) + 1 < MaxRuns
          /\ outcomes' = Append(outcomes, [status |-> pc, result |-> result])
          /\ UNCHANGED <<entry, ranges>>
    /\ pc' = "loop"
    /\ result' = -1
    /\ iters' = 0
    /\ UNCHANGED <<seeds, mappings>>
    /\ UNCHANGED notRun

\* fn seed_range_to_min_location(&self): entry = Entry::Seed; ranges = self.seeds.clone().
\* The method takes &self, so it can be called again once it has returned.
Call ==
    /\ \/ pc = "idle" /\ outcomes' = outcomes
       \/ /\ Returned
          /\ Len(outcomes) + 1 < MaxRuns
          /\ outcomes' = Append(outcomes, [status |-> pc, result |-> result])
    /\ entry' = "Seed"
    /\ ranges' = seeds
    /\ pc' = "loop"
    /\ result' = -1
    /\ iters' = 0
    /\ UNCHANGED <<seeds, mappings>>
    /\ UNCHANGED notRun

\* Iterate that tests for Location before the step instead of after it
Iterate_breakLate ==
    /\ pc = "loop"
    /\ iters < MaxIters
    /\ LET r == ForRanges(mappings, ranges, 1, entry, entry, <<>>)
       IN  IF ~r.ok
           THEN /\ pc' = "error"
                /\ UNCHANGED <<entry, ranges>>
           ELSE /\ entry' = r.to
                /\ ranges' = r.ranges
                /\ pc' = IF entry = "Location" THEN "sort" ELSE "loop"
    /\ iters' = iters + 1
    /\ UNCHANGED <<seeds, mappings, result, outcomes>>
    /\ UNCHANGED notRun

\* One iteration of `loop`
Iterate ==
    /\ pc = "loop"
    /\ iters < MaxIters
    /\ LET r == ForRanges(mappings, ranges, 1, entry, entry, <<>>)
       IN  IF ~r.ok
           THEN /\ pc' = "error"
                /\ UNCHANGED <<entry, ranges>>
           ELSE /\ entry' = r.to
                /\ ranges' = r.ranges
                /\ pc' = IF r.to = "Location" THEN "sort" ELSE "loop"
    /\ iters' = iters + 1
    /\ UNCHANGED <<seeds, mappings, result, outcomes>>
    /\ UNCHANGED notRun

\* ranges.sort_by(..); Ok(ranges[0].start)
Return ==
    /\ pc = "sort"
    /\ ranges' = SortByStart(ranges)
    /\ IF ranges = <<>>
       THEN /\ pc' = "panic"
            /\ UNCHANGED result
       ELSE /\ pc' = "done"
            /\ result' = SortByStart(ranges)[1].start
    /\ UNCHANGED <<seeds, mappings, entry, iters, outcomes>>
    /\ UNCHANGED notRun

----------------------------------------------------------------------------
(* The almanacs explored: Almanac { seeds, mappings } *)

MaxSeeds == 2       \* seed intervals per almanac

UsedEntry == {"Seed", "Soil", "Location"}

SeedRange == [start : 0..MaxVal, len : 1..MaxLen]
RunRule == [from : 0..MaxVal, to : 0..MaxVal, len : 1..MaxLen]

Mapping(from, to, entries) == [from |-> from, to |-> to, entries |-> entries]

\* seed -> location, one stage
OneStageAlmanacs ==
    {[e \in {"Seed"} |-> Mapping("Seed", "Location", es)] :
        es \in SeqUpTo(RunRule, MaxRules)}

\* seed -> soil -> location, two stages of at most one rule each
TwoStageAlmanacs ==
    {[e \in {"Seed", "Soil"} |->
        IF e = "Seed" THEN Mapping("Seed", "Soil", p[1])
                      ELSE Mapping("Soil", "Location", p[2])] :
        p \in SeqUpTo(RunRule, 1) \X SeqUpTo(RunRule, 1)}

\* any graph over the used categories (stages missing, cycles, a stage
\* registered for location), every stage holding the same rule list
AnyShapeAlmanacs ==
    UNION {{[e \in D |-> Mapping(e, g[e], es)] : g \in [D -> UsedEntry]} :
        <<D, es>> \in (SUBSET UsedEntry) \X SeqUpTo(RunRule, 1)}

Almanacs == OneStageAlmanacs \cup TwoStageAlmanacs \cup AnyShapeAlmanacs

InitRun ==
    /\ mappings \in Almanacs
    /\ seeds \in SeqUpTo(SeedRange, MaxSeeds)
    /\ entry = "Seed"
    /\ ranges = <<>>
    /\ pc = "idle"
    /\ result = -1
    /\ iters = 0
    /\ outcomes = <<>>

MaxFairSeeds == 1   \* seed intervals per almanac where termination is followed

\* the almanacs of InitRun with shorter seed lists
InitRunFair ==
    /\ mappings \in Almanacs
    /\ seeds \in SeqUpTo(SeedRange, MaxFairSeeds)
    /\ entry = "Seed"
    /\ ranges = <<>>
    /\ pc = "idle"
    /\ result = -1
    /\ iters = 0
    /\ outcomes = <<>>

RunIdle ==
    /\ mappings = << >>
    /\ seeds = <<>>
    /\ entry = "Seed"
    /\ ranges = <<>>
    /\ pc = "off"
    /\ result = -1
    /\ iters = 0
    /\ outcomes = <<>>

----------------------------------------------------------------------------
(* impl FromStr for MappingRange *)

MaxLineLen == 7     \* characters per line

Char == {"0", "1", " ", "x"}
DigitChars == <<"0", "1", "2", "3", "4", "5", "6", "7", "8", "9">>
Digit == {DigitChars[i] : i \in DOMAIN DigitChars}

DigitVal(c) == (CHOOSE i \in DOMAIN DigitChars : DigitChars[i] = c) - 1

\* str::split_ascii_whitespace: the maximal runs of non-whitespace characters.
\* `cur` is the token being read, `acc` the tokens found.
RECURSIVE SplitFrom(_, _, _, _)
SplitFrom(s, i, cur, acc) ==
    IF i > Len(s)
    THEN IF cur = <<>> THEN acc ELSE Append(acc, cur)
    ELSE IF s[i] = " "
    THEN SplitFrom(s, i + 1, <<>>, IF cur = <<>> THEN acc ELSE Append(acc, cur))
    ELSE SplitFrom(s, i + 1, Append(cur, s[i]), acc)

split_ascii_whitespace(s) == SplitFrom(s, 1, <<>>, <<>>)

\* usize::from_str(tok).ok() on the characters of Char: Some(n) for a
\* non-empty run of decimal digits, None otherwise
RECURSIVE DecimalValue(_)
DecimalValue(tok) ==
    IF tok = <<>>
    THEN 0
    ELSE 10 * DecimalValue(SubSeq(tok, 1, Len(tok) - 1)) + DigitVal(tok[Len(tok)])

usize_from_str(tok) ==
    IF tok # <<>> /\ \A i \in DOMAIN tok : tok[i] \in Digit
    THEN [some |-> TRUE, v |-> DecimalValue(tok)]
    ELSE [some |-> FALSE, v |-> 0]

\* .map_while(|s| usize::from_str(s).ok()).collect(): the values of the
\* tokens up to the first token that does not parse
RECURSIVE MapWhile(_, _)
MapWhile(toks, i) ==
    IF i > Len(toks)
    THEN <<>>
    ELSE LET n == usize_from_str(toks[i])
         IN  IF n.some THEN <<n.v>> \o MapWhile(toks, i + 1) ELSE <<>>

ParseErr == [ok |-> FALSE, from |-> 0, to |-> 0, len |-> 0]

\* MappingRange::from_str
from_str(s) ==
    LET m == MapWhile(split_ascii_whitespace(s), 1)
    IN  IF Len(m) # 3
        THEN ParseErr
        ELSE [ok |-> TRUE, from |-> m[2], to |-> m[1], len |-> m[3]]

InitParse ==
    /\ line \in SeqUpTo(Char, MaxLineLen)
    /\ parsed = ParseErr
    /\ ppc = "ready"

ParseIdle == line = <<>> /\ parsed = ParseErr /\ ppc = "off"

\* MappingRange::from_str(&line)
ParseLine ==
    /\ ppc = "ready"
    /\ parsed' = from_str(line)
    /\ ppc' = "called"
    /\ UNCHANGED line
    /\ UNCHANGED notParse

----------------------------------------------------------------------------
(* Day 7 (src/day07/src/main.rs): camel cards *)

\* enum Card, in declaration order: `card as usize` is the position minus one
CardOrder ==
    <<"Ace", "King", "Queen", "Ten", "Nine", "Eight", "Seven", "Six", "Five",
      "Four", "Three", "Two", "Joker">>

Card == {CardOrder[i] : i \in DOMAIN CardOrder}

\* `card as usize`
CardIndex(card) == (CHOOSE i \in DOMAIN CardOrder : CardOrder[i] = card) - 1

JokerIndex == CardIndex("Joker")

\* Card::rank
CardRank(card) ==
    CASE card = "Ace" -> 14
      [] card = "King" -> 13
      [] card = "Queen" -> 12
      [] card = "Ten" -> 10
      [] card = "Nine" -> 9
      [] card = "Eight" -> 8
      [] card = "Seven" -> 7
      [] card = "Six" -> 6
      [] card = "Five" -> 5
      [] card = "Four" -> 4
      [] card = "Three" -> 3
      [] card = "Two" -> 2
      [] card = "Joker" -> 1

\* Card::len
CardLen == 12

\* impl TryFrom<char> for Card: the card of a character, "Invalid" for Err
CardOfChar(c) ==
    CASE c = "A" -> "Ace"
      [] c = "K" -> "King"
      [] c = "Q" -> "Queen"
      [] c = "J" -> "Joker"
      [] c = "T" -> "Ten"
      [] c = "9" -> "Nine"
      [] c = "8" -> "Eight"
      [] c = "7" -> "Seven"
      [] c = "6" -> "Six"
      [] c = "5" -> "Five"
      [] c = "4" -> "Four"
      [] c = "3" -> "Three"
      [] c = "2" -> "Two"
      [] OTHER -> "Invalid"

\* HandType::rank
HandTypeRank(t) ==
    CASE t = "FiveOfAKind" -> 7
      [] t = "FourOfAKind" -> 6
      [] t = "FullHouse" -> 5
      [] t = "ThreeOfAKind" -> 4
      [] t = "TwoPair" -> 3
      [] t = "Pair" -> 2
      [] t = "HighCard" -> 1

\* Iterator::max_by_key over the (index, count) pairs of `counter` whose
\* index is in idx: the last of the elements with the greatest count
MaxByKey(counter, idx) ==
    CHOOSE i \in idx :
        /\ \A j \in idx : counter[j] <= counter[i]
        /\ \A j \in idx : counter[j] = counter[i] => j <= i

\* score that counts the jokers as a kind of their own
score_jokersNotWild(hand) ==
    LET counter == [i \in 0..CardLen |->
                        Cardinality({p \in DOMAIN hand : CardIndex(hand[p]) = i})]
        most_common_idx == MaxByKey(counter, (0..CardLen) \ {JokerIndex})
        most_common_ct ==
            counter[most_common_idx]
    IN  CASE most_common_ct = 5 -> "FiveOfAKind"
          [] most_common_ct = 4 -> "FourOfAKind"
          [] most_common_ct \in {2, 3} ->
                LET next_idx == MaxByKey(counter, (0..CardLen) \ {most_common_idx, JokerIndex})
                    next_most_common_ct == counter[next_idx]
                IN  CASE most_common_ct = 3 /\ next_most_common_ct = 2 -> "FullHouse"
                      [] most_common_ct = 3 /\ next_most_common_ct # 2 -> "ThreeOfAKind"
                      [] most_common_ct = 2 /\ next_most_common_ct = 2 -> "TwoPair"
                      [] OTHER -> "Pair"
          [] OTHER -> "HighCard"

\* HandType::score
score(hand) ==
    LET counter == [i \in 0..CardLen |->
                        Cardinality({p \in DOMAIN hand : CardIndex(hand[p]) = i})]
        most_common_idx == MaxByKey(counter, (0..CardLen) \ {JokerIndex})
        most_common_ct ==
            IF most_common_idx # JokerIndex
            THEN counter[most_common_idx] + counter[JokerIndex]
            ELSE counter[most_common_idx]
    IN  CASE most_common_ct = 5 -> "FiveOfAKind"
          [] most_common_ct = 4 -> "FourOfAKind"
          [] most_common_ct \in {2, 3} ->
                LET next_idx == MaxByKey(counter, (0..CardLen) \ {most_common_idx, JokerIndex})
                    next_most_common_ct == counter[next_idx]
                IN  CASE most_common_ct = 3 /\ next_most_common_ct = 2 -> "FullHouse"
                      [] most_common_ct = 3 /\ next_most_common_ct # 2 -> "ThreeOfAKind"
                      [] most_common_ct = 2 /\ next_most_common_ct = 2 -> "TwoPair"
                      [] OTHER -> "Pair"
          [] OTHER -> "HighCard"

\* Ordering of two integers (Ord::cmp on usize)
IntCmp(a, b) == IF a < b THEN "Less" ELSE IF a > b THEN "Greater" ELSE "Equal"

\* impl Ord for Card
Card_cmp(self, other) == IntCmp(CardRank(self), CardRank(other))

\* impl Ord for HandType
HandType_cmp(self, other) == IntCmp(HandTypeRank(self), HandTypeRank(other))

\* Result<Hand>
HandErr == [ok |-> FALSE, hand |-> <<>>, hand_type |-> "HighCard"]

\* Hand::from_str on ASCII text, where s.len() is the number of characters
Hand_from_str(s) ==
    IF Len(s) # 5
    THEN HandErr
    ELSE IF \E i \in 1..5 : CardOfChar(s[i]) = "Invalid"
    THEN HandErr
    ELSE LET hand == [i \in 1..5 |-> CardOfChar(s[i])]
         IN  [ok |-> TRUE, hand |-> hand, hand_type |-> score(hand)]

\* Hand::cmp with the hand type left out of the comparison
Hand_cmp_cardsOnly(self, other) ==
    LET differ == {i \in 1..5 : Card_cmp(self.hand[i], other.hand[i]) # "Equal"}
    IN  IF differ = {}
        THEN "Equal"
        ELSE LET i == CHOOSE k \in differ : \A j \in differ : k <= j
             IN  Card_cmp(self.hand[i], other.hand[i])

\* Hand::cmp
Hand_cmp(self, other) ==
    LET hand_type_ord == HandType_cmp(self.hand_type, other.hand_type)
    IN  IF hand_type_ord \in {"Greater", "Less"}
        THEN hand_type_ord
        ELSE LET differ == {i \in 1..5 : Card_cmp(self.hand[i], other.hand[i]) # "Equal"}
             IN  IF differ = {}
                 THEN "Equal"
                 ELSE LET i == CHOOSE k \in differ : \A j \in differ : k <= j
                      IN  Card_cmp(self.hand[i], other.hand[i])

\* str::split_once(' '): the text before and after the first space
split_once(s) ==
    LET spaces == {i \in DOMAIN s : s[i] = " "}
    IN  IF spaces = {}
        THEN [some |-> FALSE, head |-> <<>>, tail |-> <<>>]
        ELSE LET i == CHOOSE k \in spaces : \A j \in spaces : k <= j
             IN  [some |-> TRUE, head |-> SubSeq(s, 1, i - 1), tail |-> SubSeq(s, i + 1, Len(s))]

\* Result<HandWithBid>
BidErr == [ok |-> FALSE, hand |-> HandErr, bid |-> 0]

\* HandWithBid::from_str
HandWithBid_from_str(s) ==
    LET split == split_once(s)
    IN  IF ~split.some
        THEN BidErr
        ELSE LET hand == Hand_from_str(split.head)
                 bid == usize_from_str(split.tail)
             IN  IF ~hand.ok THEN BidErr
                 ELSE IF ~bid.some THEN BidErr
                 ELSE [ok |-> TRUE, hand |-> hand, bid |-> bid.v]

\* .map_while(|s| HandWithBid::from_str(&s).ok()).collect()
RECURSIVE HandsMapWhile(_, _)
HandsMapWhile(value, i) ==
    IF i > Len(value)
    THEN <<>>
    ELSE LET h == HandWithBid_from_str(value[i])
         IN  IF h.ok THEN <<h>> \o HandsMapWhile(value, i + 1) ELSE <<>>

\* Hands::try_from
Hands_try_from(value) == [ok |-> TRUE, hands |-> HandsMapWhile(value, 1)]

\* The characters of the non-joker cards, strongest first
CardChars == <<"A", "K", "Q", "T", "9", "8", "7", "6", "5", "4", "3", "2">>

\* The joker and the first n non-joker characters
PlayChars(n) == {CardChars[i] : i \in 1..n} \cup {"J"}

NumKinds == 5       \* non-joker card kinds in the scored hands
NumCmpKinds == 2    \* non-joker card kinds in the compared hands
MaxLines == 2       \* input lines handed to Hands::try_from

InitScore ==
    /\ sStr \in [1..5 -> PlayChars(NumKinds)]
    /\ sHand = HandErr
    /\ spc = "ready"

ScoreIdle == sStr = <<>> /\ sHand = HandErr /\ spc = "off"

\* Hand::from_str(s)
ParseHand ==
    /\ spc = "ready"
    /\ sHand' = Hand_from_str(sStr)
    /\ spc' = "called"
    /\ UNCHANGED sStr
    /\ UNCHANGED notScore

\* The hands of the tests of day 7
ExampleHands ==
    {<<"3", "3", "3", "3", "2">>, <<"2", "A", "A", "A", "A">>,
     <<"7", "7", "8", "8", "8">>, <<"7", "7", "7", "8", "8">>,
     <<"T", "5", "5", "J", "5">>, <<"K", "T", "J", "J", "T">>,
     <<"A", "2", "3", "4", "5">>, <<"3", "2", "T", "3", "K">>,
     <<"K", "K", "6", "7", "7">>, <<"Q", "Q", "Q", "K", "A">>}

\* The compared hands: every hand over a few kinds, and the hands of the tests
CmpHands == {Hand_from_str(s) : s \in [1..5 -> PlayChars(NumCmpKinds)] \cup ExampleHands}

InitCmp ==
    /\ cA \in CmpHands
    /\ cB \in CmpHands
    /\ cOrd = "None"
    /\ cpc = "ready"

CmpIdle == cA = HandErr /\ cB = HandErr /\ cOrd = "None" /\ cpc = "off"

\* hand_a.cmp(&hand_b)
Compare ==
    /\ cpc = "ready"
    /\ cOrd' = Hand_cmp(cA, cB)
    /\ cpc' = "called"
    /\ UNCHANGED <<cA, cB>>
    /\ UNCHANGED notCmp

\* Input lines: a hand text, a separator and a bid text, each well formed or not
HandTexts ==
    {<<"A", "A", "A", "A", "A">>, <<"K", "T", "J", "J", "T">>,
     <<"A", "A", "A", "A">>, <<"A", "A", "A", "A", "A", "A">>,
     <<"A", "A", "x", "A", "A">>}
Separators == {<<" ">>, <<>>}
BidTexts == {<<"1">>, <<"1", "0">>, <<>>, <<"x">>, <<"1", " ", "1">>}
LinePool == {h \o p \o b : h \in HandTexts, p \in Separators, b \in BidTexts}

InitHands ==
    /\ tLines \in SeqUpTo(LinePool, MaxLines)
    /\ tHands = [ok |-> FALSE, hands |-> <<>>]
    /\ tpc = "ready"

HandsIdle == tLines = <<>> /\ tHands = [ok |-> FALSE, hands |-> <<>>] /\ tpc = "off"

\* Hands::try_from(lines)
TryFrom ==
    /\ tpc = "ready"
    /\ tHands' = Hands_try_from(tLines)
    /\ tpc' = "called"
    /\ UNCHANGED tLines
    /\ UNCHANGED notHands

----------------------------------------------------------------------------
(* util (src/util/src/lib.rs): grid_neighbors.  The function only asks      *)
(* whether a cell exists, so a grid &[Vec<T>] is kept as the sequence of    *)
(* the lengths of its rows; row y of the code is element y + 1 here, and a  *)
(* cell is <<x, y>>.                                                        *)

MaxRows == 3        \* rows per grid, and the largest y
MaxCols == 3        \* cells per row, and the largest x

\* grid[y].get(x).is_some(), for a row y that exists
RowGet(grid, y, x) == x < grid[y + 1]

\* grid.get(y).and_then(|r| r.get(x)).is_some()
GridGet(grid, y, x) == y < Len(grid) /\ RowGet(grid, y, x)

\* the panic of grid[y] on a row that does not exist
Panic == [panic |-> TRUE, neighbors |-> <<>>]

\* grid_neighbors whose cell to the right is not looked up
grid_neighbors_rightUnchecked(grid, x, y, include_diagonal) ==
    LET below ==
            LET y1 == y + 1
            IN  IF GridGet(grid, y1, x)
                THEN <<<<x, y1>>>>
                     \o (IF include_diagonal
                         THEN (IF RowGet(grid, y1, x + 1) THEN <<<<x + 1, y1>>>> ELSE <<>>)
                              \o (IF x >= 1 THEN <<<<x - 1, y1>>>> ELSE <<>>)
                         ELSE <<>>)
                ELSE <<>>
        above ==
            IF y >= 1
            THEN LET y1 == y - 1
                 IN  <<<<x, y1>>>>
                     \o (IF include_diagonal
                         THEN (IF RowGet(grid, y1, x + 1) THEN <<<<x + 1, y1>>>> ELSE <<>>)
                              \o (IF x >= 1 THEN <<<<x - 1, y1>>>> ELSE <<>>)
                         ELSE <<>>)
            ELSE <<>>
        right == <<<<x + 1, y>>>>
        left == IF x >= 1 THEN <<<<x - 1, y>>>> ELSE <<>>
    IN  IF y >= 1 /\ include_diagonal /\ y - 1 >= Len(grid)
        THEN Panic
        ELSE [panic |-> FALSE, neighbors |-> below \o above \o right \o left]

\* util::grid_neighbors
grid_neighbors(grid, x, y, include_diagonal) ==
    LET below ==
            LET y1 == y + 1
            IN  IF GridGet(grid, y1, x)
                THEN <<<<x, y1>>>>
                     \o (IF include_diagonal
                         THEN (IF RowGet(grid, y1, x + 1) THEN <<<<x + 1, y1>>>> ELSE <<>>)
                              \o (IF x >= 1 THEN <<<<x - 1, y1>>>> ELSE <<>>)
                         ELSE <<>>)
                ELSE <<>>
        above ==
            IF y >= 1
            THEN LET y1 == y - 1
                 IN  <<<<x, y1>>>>
                     \o (IF include_diagonal
                         THEN (IF RowGet(grid, y1, x + 1) THEN <<<<x + 1, y1>>>> ELSE <<>>)
                              \o (IF x >= 1 THEN <<<<x - 1, y1>>>> ELSE <<>>)
                         ELSE <<>>)
            ELSE <<>>
        right == IF GridGet(grid, y, x + 1) THEN <<<<x + 1, y>>>> ELSE <<>>
        left == IF x >= 1 THEN <<<<x - 1, y>>>> ELSE <<>>
    IN  IF y >= 1 /\ include_diagonal /\ y - 1 >= Len(grid)
        THEN Panic
        ELSE [panic |-> FALSE, neighbors |-> below \o above \o right \o left]

InitGrid ==
    /\ gGrid \in SeqUpTo(0..MaxCols, MaxRows)
    /\ gX \in 0..MaxCols
    /\ gY \in 0..MaxRows
    /\ gDiag \in BOOLEAN
    /\ gOut = [panic |-> FALSE, neighbors |-> <<>>]
    /\ gpc = "ready"

GridIdle ==
    /\ gGrid = <<>> /\ gX = 0 /\ gY = 0 /\ gDiag = FALSE
    /\ gOut = [panic |-> FALSE, neighbors |-> <<>>]
    /\ gpc = "off"

\* grid_neighbors(&grid, x, y, include_diagonal)
Neighbors ==
    /\ gpc = "ready"
    /\ gOut' = grid_neighbors(gGrid, gX, gY, gDiag)
    /\ gpc' = "called"
    /\ UNCHANGED <<gGrid, gX, gY, gDiag>>
    /\ UNCHANGED notGrid

----------------------------------------------------------------------------
(* Day 9 (src/day09/src/main.rs): OasisReadings::next_value.  history[i] of *)
(* the code is element i + 1 of the sequence here.  curr.len() - 1 on an    *)
(* empty Vec overflows usize: a panic with overflow checks, and without     *)
(* them an index far out of bounds, which panics as well.                   *)

MaxReading == 3     \* readings range over -MaxReading..MaxReading
MaxReadings == 4    \* readings per sequence

OasisPanic == [panic |-> TRUE, value |-> 0]

\* (0..(curr.len() - 1)).map(|n| curr[n + 1] - curr[n]).collect()
Differences(curr) == [n \in 1..(Len(curr) - 1) |-> curr[n + 1] - curr[n]]

\* the first loop: the history once it has left the loop, <<>> for a panic
RECURSIVE BuildHistory(_, _)
BuildHistory(history, i) ==
    LET curr == history[i + 1]
    IN  IF Len(curr) = 0
        THEN <<>>
        ELSE LET pushed == Append(history, Differences(curr))
             IN  IF \A n \in DOMAIN pushed[i + 2] : pushed[i + 2][n] = 0
                 THEN pushed
                 ELSE BuildHistory(pushed, i + 1)

\* the second loop from index i down to 0; next is None (some = FALSE) or Some(v)
RECURSIVE Extrapolate(_, _, _)
Extrapolate(history, i, next) ==
    IF i < 0
    THEN [panic |-> FALSE, value |-> next.v]
    ELSE LET next_history == history[i + 1]
         IN  IF next.some
             THEN IF Len(next_history) = 0
                  THEN OasisPanic
                  ELSE Extrapolate(history, i - 1,
                           [some |-> TRUE, v |-> next.v + next_history[Len(next_history)]])
             ELSE LET prev_history == history[i + 2]
                  IN  IF Len(prev_history) = 0 \/ Len(next_history) = 0
                      THEN OasisPanic
                      ELSE Extrapolate(history, i - 1,
                               [some |-> TRUE,
                                v |-> prev_history[Len(prev_history)]
                                        + next_history[Len(next_history)]])

\* OasisReadings::next_value
next_value(self) ==
    LET history == BuildHistory(<<self>>, 0)
    IN  IF history = <<>>
        THEN OasisPanic
        ELSE Extrapolate(history, Len(history) - 2, [some |-> FALSE, v |-> 0])

InitOasis ==
    /\ oReadings \in SeqUpTo((-MaxReading)..MaxReading, MaxReadings)
    /\ oOut = [panic |-> FALSE, value |-> 0]
    /\ opc = "ready"

OasisIdle == oReadings = <<>> /\ oOut = [panic |-> FALSE, value |-> 0] /\ opc = "off"

\* readings.next_value()
NextValue ==
    /\ opc = "ready"
    /\ oOut' = next_value(oReadings)
    /\ opc' = "called"
    /\ UNCHANGED oReadings
    /\ UNCHANGED notOasis

----------------------------------------------------------------------------
(* Day 1 (src/day01/src/main.rs): CalibrationValue::from_str.  Indices into *)
(* the line are those of the code (0 for the first character).  util::MinMax *)
(* is not part of the sources at hand; it is modelled as its name and its   *)
(* use say: the least and the greatest of the collected indices, None for   *)
(* both when there are none.  A HashMap yields its entries in an            *)
(* unspecified order; the model follows the loop for several orders.        *)

MaxCalLen == 5      \* characters per generated line

DigitWords ==
    <<<<"o", "n", "e">>,
      <<"t", "w", "o">>,
      <<"t", "h", "r", "e", "e">>,
      <<"f", "o", "u", "r">>,
      <<"f", "i", "v", "e">>,
      <<"s", "i", "x">>,
      <<"s", "e", "v", "e", "n">>,
      <<"e", "i", "g", "h", "t">>,
      <<"n", "i", "n", "e">>>>

\* string_to_digit_map(): the entries in insertion order
string_to_digit_map ==
    [i \in 1..18 |->
        IF i % 2 = 1
        THEN [key |-> <<DigitChars[(i + 1) \div 2 + 1]>>, v |-> (i + 1) \div 2]
        ELSE [key |-> DigitWords[i \div 2], v |-> i \div 2]]

\* orders of iteration over the 18 entries: insertion order, its reverse,
\* the words before the digits, and the digits before the words reversed
KeyOrders ==
    {[i \in 1..18 |-> i],
     [i \in 1..18 |-> 19 - i],
     [i \in 1..18 |-> IF i <= 9 THEN 2 * i ELSE 2 * (i - 9) - 1],
     [i \in 1..18 |-> IF i <= 9 THEN 2 * (10 - i) - 1 ELSE 2 * (19 - i)]}

\* n occurs in s at index i
MatchesAt(s, n, i) == i + Len(n) <= Len(s) /\ \A k \in 1..Len(n) : s[i + k] = n[k]

\* s.match_indices(n).map(|m| m.0): the start indices of the successive
\* non-overlapping matches of n, searched from index i on
RECURSIVE MatchIndicesFrom(_, _, _)
MatchIndicesFrom(s, n, i) ==
    IF i + Len(n) > Len(s)
    THEN <<>>
    ELSE IF MatchesAt(s, n, i)
    THEN <<i>> \o MatchIndicesFrom(s, n, i + Len(n))
    ELSE MatchIndicesFrom(s, n, i + 1)

match_indices(s, n) == MatchIndicesFrom(s, n, 0)

\* .collect::<MinMax>()
MinMax(indices) ==
    IF indices = <<>>
    THEN [min |-> [some |-> FALSE, v |-> 0], max |-> [some |-> FALSE, v |-> 0]]
    ELSE LET vals == {indices[i] : i \in DOMAIN indices}
         IN  [min |-> [some |-> TRUE, v |-> CHOOSE x \in vals : \A y \in vals : x <= y],
              max |-> [some |-> TRUE, v |-> CHOOSE x \in vals : \A y \in vals : x >= y]]

NoDigit == [some |-> FALSE, idx |-> 0, v |-> 0]

\* the loop of from_str with right_most taken from the first occurrence of
\* each entry instead of its last
RECURSIVE CalFold_maxFromMin(_, _, _, _, _)
CalFold_maxFromMin(s, order, k, left, right) ==
    IF k > Len(order)
    THEN [left_most |-> left, right_most |-> right]
    ELSE LET n == string_to_digit_map[order[k]].key
             v == string_to_digit_map[order[k]].v
             min_max == MinMax(match_indices(s, n))
             newLeft ==
                IF min_max.min.some /\ (~left.some \/ min_max.min.v < left.idx)
                THEN [some |-> TRUE, idx |-> min_max.min.v, v |-> v]
                ELSE left
             newRight ==
                IF min_max.min.some /\ (~right.some \/ min_max.min.v > right.idx)
                THEN [some |-> TRUE, idx |-> min_max.min.v, v |-> v]
                ELSE right
         IN  CalFold_maxFromMin(s, order, k + 1, newLeft, newRight)

\* the for loop of from_str over the entries in the order `order`, from the
\* k-th entry on; left and right are left_most and right_most
RECURSIVE CalFold(_, _, _, _, _)
CalFold(s, order, k, left, right) ==
    IF k > Len(order)
    THEN [left_most |-> left, right_most |-> right]
    ELSE LET n == string_to_digit_map[order[k]].key
             v == string_to_digit_map[order[k]].v
             min_max == MinMax(match_indices(s, n))
             newLeft ==
                IF min_max.min.some /\ (~left.some \/ min_max.min.v < left.idx)
                THEN [some |-> TRUE, idx |-> min_max.min.v, v |-> v]
                ELSE left
             newRight ==
                IF min_max.max.some /\ (~right.some \/ min_max.max.v > right.idx)
                THEN [some |-> TRUE, idx |-> min_max.max.v, v |-> v]
                ELSE right
         IN  CalFold(s, order, k + 1, newLeft, newRight)

\* Result<CalibrationValue>
CalErr == [ok |-> FALSE, val |-> 0]

\* CalibrationValue::from_str, the map being iterated in the order `order`
CalibrationValue_from_str(s, order) ==
    LET found == CalFold(s, order, 1, NoDigit, NoDigit)
    IN  IF ~found.left_most.some \/ ~found.right_most.some
        THEN CalErr
        ELSE [ok |-> TRUE, val |-> found.left_most.v * 10 + found.right_most.v]

CalChars == {"o", "n", "e", "t", "w", "2"}

\* the lines of test_from_str
ExampleLines ==
    {<<"t", "w", "o", "1", "n", "i", "n", "e">>,
     <<"e", "i", "g", "h", "t", "w", "o", "t", "h", "r", "e", "e">>,
     <<"a", "b", "c", "o", "n", "e", "2", "t", "h", "r", "e", "e", "x", "y", "z">>,
     <<"x", "t", "w", "o", "n", "e", "3", "f", "o", "u", "r">>,
     <<"4", "n", "i", "n", "e", "e", "i", "g", "h", "t", "s", "e", "v", "e", "n", "2">>,
     <<"z", "o", "n", "e", "i", "g", "h", "t", "2", "3", "4">>,
     <<"7", "p", "q", "r", "s", "t", "s", "i", "x", "t", "e", "e", "n">>,
     <<"6", "t", "w", "o", "f", "i", "v", "e", "3", "t", "w", "o">>}

InitCal ==
    /\ dLine \in SeqUpTo(CalChars, MaxCalLen) \cup ExampleLines
    /\ dOrder \in KeyOrders
    /\ dOut = CalErr
    /\ dpc = "ready"

CalIdle == dLine = <<>> /\ dOrder = <<>> /\ dOut = CalErr /\ dpc = "off"

\* CalibrationValue::from_str(line)
Calibrate ==
    /\ dpc = "ready"
    /\ dOut' = CalibrationValue_from_str(dLine, dOrder)
    /\ dpc' = "called"
    /\ UNCHANGED <<dLine, dOrder>>
    /\ UNCHANGED notCal

----------------------------------------------------------------------------
(* Day 4 (src/day04/src/main.rs): scratch cards.  The OnceCell winner_ct is *)
(* a record [some, v]: empty (some = FALSE) until the first winner_ct().    *)

MaxWin == 2         \* winning-number tokens per line
MaxNums == 3        \* own-number tokens per line
MaxCalls == 2       \* calls of winner_ct and value on one card

\* str::split_once(delim): the text before and after the first delim
split_once_on(s, delim) ==
    LET at == {i \in DOMAIN s : s[i] = delim}
    IN  IF at = {}
        THEN [some |-> FALSE, head |-> <<>>, tail |-> <<>>]
        ELSE LET i == CHOOSE k \in at : \A j \in at : k <= j
             IN  [some |-> TRUE, head |-> SubSeq(s, 1, i - 1), tail |-> SubSeq(s, i + 1, Len(s))]

\* Vec::sort on numbers
RECURSIVE SortNums(_)
SortNums(v) ==
    IF v = <<>>
    THEN <<>>
    ELSE LET rest == SortNums(Tail(v))
             before == SelectSeq(rest, LAMBDA n : n < Head(v))
             after == SelectSeq(rest, LAMBDA n : n >= Head(v))
         IN  before \o <<Head(v)>> \o after

\* slice::binary_search(n).is_ok() between left and right (indices of the
\* code): halving on the comparison with the middle element, as the
\* standard library does
RECURSIVE BinarySearch(_, _, _, _)
BinarySearch(v, n, left, right) ==
    IF left >= right
    THEN FALSE
    ELSE LET mid == left + ((right - left) \div 2)
         IN  IF v[mid + 1] = n THEN TRUE
             ELSE IF v[mid + 1] < n THEN BinarySearch(v, n, mid + 1, right)
             ELSE BinarySearch(v, n, left, mid)

binary_search(v, n) == BinarySearch(v, n, 0, Len(v))

EmptyCell == [some |-> FALSE, v |-> 0]

\* Result<Card>
CardErr == [ok |-> FALSE, winning_numbers |-> <<>>, numbers |-> <<>>, winner_ct |-> EmptyCell, ct |-> 0]

\* Card::new
Card_new(winning_numbers, numbers) ==
    [ok |-> TRUE, winning_numbers |-> winning_numbers, numbers |-> numbers,
     winner_ct |-> EmptyCell, ct |-> 1]

\* Card::from_str that leaves the numbers in the order of the line
Card_from_str_unsorted(input) ==
    LET first == split_once_on(input, ":")
    IN  IF ~first.some
        THEN CardErr
        ELSE LET second == split_once_on(first.tail, "|")
             IN  IF ~second.some
                 THEN CardErr
                 ELSE LET winning_numbers == MapWhile(split_ascii_whitespace(second.head), 1)
                          numbers == MapWhile(split_ascii_whitespace(second.tail), 1)
                      IN  Card_new(winning_numbers, numbers)

\* Card::from_str
Card_from_str(input) ==
    LET first == split_once_on(input, ":")
    IN  IF ~first.some
        THEN CardErr
        ELSE LET second == split_once_on(first.tail, "|")
             IN  IF ~second.some
                 THEN CardErr
                 ELSE LET winning_numbers == MapWhile(split_ascii_whitespace(second.head), 1)
                          numbers == MapWhile(split_ascii_whitespace(second.tail), 1)
                      IN  Card_new(winning_numbers, SortNums(numbers))

\* Card::winner_ct: the card after the call and the value returned
winner_ct(self) ==
    IF self.winner_ct.some
    THEN [card |-> self, ret |-> self.winner_ct.v]
    ELSE LET count == Cardinality({i \in DOMAIN self.winning_numbers :
                            binary_search(self.numbers, self.winning_numbers[i])})
         IN  [card |-> [self EXCEPT !.winner_ct = [some |-> TRUE, v |-> count]],
              ret |-> count]

\* Card::winner
winner(self) == LET r == winner_ct(self) IN [card |-> r.card, ret |-> r.ret > 0]

\* Card::value
value(self) ==
    LET w == winner(self)
    IN  IF w.ret
        THEN LET r == winner_ct(w.card) IN [card |-> r.card, ret |-> 2 ^ (r.ret - 1)]
        ELSE [card |-> w.card, ret |-> 0]

\* the tokens of a line: numbers and a word
CardTokens == {<<"1">>, <<"2">>, <<"3">>, <<"x">>}

\* the tokens, each behind a space
RECURSIVE JoinTokens(_)
JoinTokens(toks) == IF toks = <<>> THEN <<>> ELSE <<" ">> \o Head(toks) \o JoinTokens(Tail(toks))

\* lines "C<colon> w.. <bar> n..", with or without the colon and the bar
CardLines ==
    {<<"C">> \o colon \o JoinTokens(w) \o bar \o JoinTokens(n) :
        colon \in {<<":">>, <<>>}, bar \in {<<" ", "|">>, <<>>},
        w \in SeqUpTo(CardTokens, MaxWin), n \in SeqUpTo(CardTokens, MaxNums)}

NoCall == [fn |-> "none", v |-> 0]

InitCard ==
    /\ kLine \in CardLines
    /\ kCard = CardErr
    /\ kRet = NoCall
    /\ kCalls = 0
    /\ kpc = "ready"

CardIdle == kLine = <<>> /\ kCard = CardErr /\ kRet = NoCall /\ kCalls = 0 /\ kpc = "off"

\* Card::from_str(line)
FromStr ==
    /\ kpc = "ready"
    /\ kCard' = Card_from_str(kLine)
    /\ kpc' = "built"
    /\ UNCHANGED <<kLine, kRet, kCalls>>
    /\ UNCHANGED notCard

\* card.winner_ct()
WinnerCt ==
    /\ kpc = "built" /\ kCard.ok /\ kCalls < MaxCalls
    /\ kCard' = winner_ct(kCard).card
    /\ kRet' = [fn |-> "winner_ct", v |-> winner_ct(kCard).ret]
    /\ kCalls' = kCalls + 1
    /\ UNCHANGED <<kLine, kpc>>
    /\ UNCHANGED notCard

\* card.value()
Value ==
    /\ kpc = "built" /\ kCard.ok /\ kCalls < MaxCalls
    /\ kCard' = value(kCard).card
    /\ kRet' = [fn |-> "value", v |-> value(kCard).ret]
    /\ kCalls' = kCalls + 1
    /\ UNCHANGED <<kLine, kpc>>
    /\ UNCHANGED notCard

----------------------------------------------------------------------------
(* Day 3 (src/day03/src/main.rs): the engine schematic.  Positions are      *)
(* those of the code (x and y from 0); grid[y][x] of the code is            *)
(* grid[y + 1][x + 1] here.  A gear is the set of its part numbers.         *)

MaxWidth == 3       \* characters per line of the schematic
MaxHeight == 2      \* lines of the schematic

EngineChars == {".", "*", "2", "3"}

\* char::is_numeric, on the characters used here
is_numeric(c) == c \in Digit

\* the loop over the characters of line y from index x on, with the locals
\* value and position of try_from; numbers collects what
\* add_num_with_position pushed
RECURSIVE LineNumbers(_, _, _, _, _, _)
LineNumbers(ln, y, x, val, position, numbers) ==
    LET pushed == Append(numbers,
                     [value |-> DecimalValue(val), position |-> position, length |-> Len(val)])
    IN  IF x >= Len(ln)
        THEN IF val # <<>> THEN pushed ELSE numbers
        ELSE LET c == ln[x + 1]
             IN  IF is_numeric(c)
                 THEN LineNumbers(ln, y, x + 1, Append(val, c),
                          IF val = <<>> THEN [x |-> x, y |-> y] ELSE position, numbers)
                 ELSE IF val # <<>>
                 THEN LineNumbers(ln, y, x + 1, <<>>, [x |-> 0, y |-> 0], pushed)
                 ELSE LineNumbers(ln, y, x + 1, val, position, numbers)

\* the loop over the lines from line y on
RECURSIVE SchematicNumbers(_, _, _)
SchematicNumbers(lines, y, numbers) ==
    IF y >= Len(lines)
    THEN numbers
    ELSE SchematicNumbers(lines, y + 1,
             LineNumbers(lines[y + 1], y, 0, <<>>, [x |-> 0, y |-> 0], numbers))

\* EngineSchematic::try_from
EngineSchematic_try_from(lines) ==
    [ok |-> TRUE, grid |-> lines, numbers |-> SchematicNumbers(lines, 0, <<>>)]

\* NumWithPosition::intersects
intersects(self, pos) ==
    /\ pos.y = self.position.y
    /\ \E i \in 0..(self.length - 1) : pos.x = self.position.x + i

\* the grid as grid_neighbors sees it: the lengths of its rows
RowLengths(grid) == [y \in DOMAIN grid |-> Len(grid[y])]

\* the neighbours of the cells of num, in the order in which part_numbers
\* visits them
RECURSIVE NumNeighbors(_, _, _)
NumNeighbors(grid, num, i) ==
    IF i >= num.length
    THEN <<>>
    ELSE grid_neighbors(RowLengths(grid), num.position.x + i, num.position.y, TRUE).neighbors
         \o NumNeighbors(grid, num, i + 1)

\* the inner loops of part_numbers on one number, from the k-th neighbour
\* on: "part" at a symbol, "panic" at self.grid[neighbor_y][neighbor_x]
\* outside the grid, "none" after the last neighbour
RECURSIVE ScanNeighbors(_, _, _)
ScanNeighbors(grid, cells, k) ==
    IF k > Len(cells)
    THEN "none"
    ELSE LET neighbor_x == cells[k][1]
             neighbor_y == cells[k][2]
         IN  IF neighbor_y >= Len(grid) \/ neighbor_x >= Len(grid[neighbor_y + 1])
             THEN "panic"
             ELSE LET neighbor == grid[neighbor_y + 1][neighbor_x + 1]
                  IN  IF ~is_numeric(neighbor) /\ neighbor # "."
                      THEN "part"
                      ELSE ScanNeighbors(grid, cells, k + 1)

\* EngineSchematic::part_numbers
part_numbers(self) ==
    LET scan(num) == ScanNeighbors(self.grid, NumNeighbors(self.grid, num, 0), 1)
    IN  IF \E n \in DOMAIN self.numbers : scan(self.numbers[n]) = "panic"
        THEN [panic |-> TRUE, nums |-> <<>>]
        ELSE [panic |-> FALSE, nums |-> SelectSeq(self.numbers, LAMBDA num : scan(num) = "part")]

\* the cells of the grid in the order of the two loops of gears
RECURSIVE CellsFrom(_, _)
CellsFrom(grid, y) ==
    IF y >= Len(grid)
    THEN <<>>
    ELSE [x \in 1..Len(grid[y + 1]) |-> <<x - 1, y>>] \o CellsFrom(grid, y + 1)

\* neighboring_part_nums of the cell (x, y): for each neighbour the first
\* part number that intersects it
NeighboringPartNums(grid, nums, x, y) ==
    LET cells == grid_neighbors(RowLengths(grid), x, y, TRUE).neighbors
        hit(k) == {n \in DOMAIN nums : intersects(nums[n], [x |-> cells[k][1], y |-> cells[k][2]])}
    IN  {nums[CHOOSE n \in hit(k) : \A m \in hit(k) : n <= m] :
            k \in {j \in DOMAIN cells : hit(j) # {}}}

\* the loops of gears over the cells from the k-th on
RECURSIVE GearsFrom(_, _, _, _)
GearsFrom(grid, nums, cells, k) ==
    IF k > Len(cells)
    THEN <<>>
    ELSE LET x == cells[k][1]
             y == cells[k][2]
             neighboring_part_nums == NeighboringPartNums(grid, nums, x, y)
         IN  (IF grid[y + 1][x + 1] = "*" /\ Cardinality(neighboring_part_nums) = 2
              THEN <<neighboring_part_nums>>
              ELSE <<>>)
             \o GearsFrom(grid, nums, cells, k + 1)

\* EngineSchematic::gears
gears(self) ==
    LET parts == part_numbers(self)
    IN  IF parts.panic
        THEN [panic |-> TRUE, gears |-> <<>>]
        ELSE [panic |-> FALSE,
              gears |-> GearsFrom(self.grid, parts.nums, CellsFrom(self.grid, 0), 1)]

\* Gear::ratio, of a gear of two part numbers
ratio(gear) ==
    LET a == CHOOSE n \in gear : TRUE
        b == CHOOSE n \in gear : n # a
    IN  a.value * b.value

NoSchematic == [ok |-> FALSE, grid |-> <<>>, numbers |-> <<>>]
NoGears == [panic |-> FALSE, gears |-> <<>>]

InitEngine ==
    /\ eLines \in SeqUpTo(SeqUpTo(EngineChars, MaxWidth), MaxHeight)
    /\ eSchem = NoSchematic
    /\ eGears = NoGears
    /\ epc = "ready"

EngineIdle == eLines = <<>> /\ eSchem = NoSchematic /\ eGears = NoGears /\ epc = "off"

\* EngineSchematic::try_from(lines)
BuildSchematic ==
    /\ epc = "ready"
    /\ eSchem' = EngineSchematic_try_from(eLines)
    /\ epc' = "built"
    /\ UNCHANGED <<eLines, eGears>>
    /\ UNCHANGED notEngine

\* schematic.gears()
Gears ==
    /\ epc = "built" /\ eSchem.ok
    /\ eGears' = gears(eSchem)
    /\ epc' = "called"
    /\ UNCHANGED <<eLines, eSchem>>
    /\ UNCHANGED notEngine

----------------------------------------------------------------------------
(* Day 5: impl TryFrom<Vec<String>> for Almanac, on an input of one line.   *)
(* With one line the loop body runs once, through the `seeds.is_empty()`    *)
(* branch; no mapping is opened, so mappings stays empty.                   *)

MaxSeedBody == 7    \* characters after the title of the seed line

SeedChar == {"1", "2", " ", "x"}

\* the line up to where the seed numbers start: well-formed, without the
\* colon, with another title
SeedTitles ==
    {<<"s", "e", "e", "d", "s", ":">>,
     <<"s", "e", "e", "d", "s">>,
     <<"s", "e", "e", "d", ":">>}

\* .filter_map(|s| usize::from_str(s).ok()).collect(): the values of the
\* tokens that parse, the others are skipped
RECURSIVE FilterMapUsize(_)
FilterMapUsize(toks) ==
    IF toks = <<>>
    THEN <<>>
    ELSE LET n == usize_from_str(toks[1])
         IN  (IF n.some THEN <<n.v>> ELSE <<>>) \o FilterMapUsize(Tail(toks))

\* for n in (0..seed_ranges.len()).step_by(2) { seeds.push(Range { start:
\* seed_ranges[n], len: seed_ranges[n + 1] }) }: from the (0-based) index n
\* on; seed_ranges[n + 1] panics when n is the last index
RECURSIVE PushSeeds(_, _, _)
PushSeeds(seed_ranges, n, acc) ==
    IF n >= Len(seed_ranges)
    THEN [status |-> "ok", seeds |-> acc]
    ELSE IF n + 1 >= Len(seed_ranges)
    THEN [status |-> "panic", seeds |-> <<>>]
    ELSE PushSeeds(seed_ranges, n + 2,
            Append(acc, [start |-> seed_ranges[n + 1], len |-> seed_ranges[n + 2]]))

AlmanacErr == [status |-> "err", seeds |-> <<>>]

\* Almanac::try_from(vec![l])
Almanac_try_from(l) ==
    LET sp == split_once_on(l, ":")
    IN  IF ~sp.some
        THEN AlmanacErr
        ELSE IF sp.head # <<"s", "e", "e", "d", "s">>
        THEN AlmanacErr
        ELSE PushSeeds(FilterMapUsize(split_ascii_whitespace(sp.tail)), 0, <<>>)

InitSeeds ==
    /\ aLine \in {t \o b : t \in SeedTitles, b \in SeqUpTo(SeedChar, MaxSeedBody)}
    /\ aOut = AlmanacErr
    /\ apc = "ready"

AlmIdle == aLine = <<>> /\ aOut = AlmanacErr /\ apc = "off"

\* let almanac = Almanac::try_from(..)
AlmanacTryFrom ==
    /\ apc = "ready"
    /\ aOut' = Almanac_try_from(aLine)
    /\ apc' = "called"
    /\ UNCHANGED aLine
    /\ UNCHANGED notAlm

----------------------------------------------------------------------------
(* Day 8 (src/day08/src/main.rs): Map::steps.  Node names are sequences of  *)
(* characters; a Node is the pair of its left and right successor.          *)

MaxDirs == 2        \* directions of a map
MaxSteps == 4       \* iterations of the `for` of steps that are followed

Direction == {"L", "R"}

NodeName == {<<"A", "A">>, <<"A", "Z">>, <<"Z", "A">>}

\* struct Node(String, String)
Node == NodeName \X NodeName

\* Node::next
Node_next(self, direction) == IF direction = "L" THEN self[1] ELSE self[2]

\* str::ends_with(char)
ends_with(s, c) == s # <<>> /\ s[Len(s)] = c

\* the maps Map::try_from builds: it reads nodes only once the direction
\* list is non-empty
Maps ==
    {m \in [directions : SeqUpTo(Direction, MaxDirs),
            nodes : UNION {[D -> Node] : D \in SUBSET NodeName}] :
        m.directions = <<>> => DOMAIN m.nodes = {}}

InitSteps ==
    /\ wMap \in Maps
    /\ wStart \in NodeName
    /\ wCurr = <<>>
    /\ wSteps = 0
    /\ wpc = "ready"

StepsIdle ==
    /\ wMap = [directions |-> <<>>, nodes |-> << >>]
    /\ wStart = <<>>
    /\ wCurr = <<>>
    /\ wSteps = 0
    /\ wpc = "off"

\* fn steps(&self, start: &str): let mut steps = 0; let mut curr = start;
StepsCall ==
    /\ wpc = "ready"
    /\ wSteps' = 0
    /\ wCurr' = wStart
    /\ wpc' = "loop"
    /\ UNCHANGED <<wMap, wStart>>
    /\ UNCHANGED notSteps

\* one turn of `for direction in self.directions.iter().cycle()`.  cycle() of
\* an empty list yields nothing: the loop ends and unreachable!() panics.
StepsMove ==
    /\ wpc = "loop"
    /\ wSteps < MaxSteps
    /\ IF wMap.directions = <<>>
       THEN /\ wpc' = "panic"
            /\ UNCHANGED <<wCurr, wSteps>>
       ELSE LET direction == wMap.directions[(wSteps % Len(wMap.directions)) + 1]
            IN  IF wCurr \notin DOMAIN wMap.nodes
                THEN /\ wpc' = "error"
                     /\ UNCHANGED <<wCurr, wSteps>>
                ELSE LET next == Node_next(wMap.nodes[wCurr], direction)
                     IN  /\ wSteps' = wSteps + 1
                         /\ wCurr' = next
                         /\ wpc' = IF ends_with(next, "Z") THEN "done" ELSE "loop"
    /\ UNCHANGED <<wMap, wStart>>
    /\ UNCHANGED notSteps

----------------------------------------------------------------------------
(* Day 10 (src/day10/src/main.rs): the pipe loop.  A cell is <<x, y>>, row  *)
(* y of the grid is element y + 1 of the sequence and cell x of a row is    *)
(* its element x + 1.                                                       *)

MaxPipeRows == 3    \* rows of a pipe grid
MaxPipeCols == 3    \* cells per row of a pipe grid
MaxWalk == 10       \* iterations of the `loop` of cycle_len that are followed

\* enum Pipe
Pipe ==
    {"Vertical", "Horizontal", "NorthAndEast", "NorthAndWest",
     "SouthAndWest", "SouthAndEast", "Ground", "Start"}

\* Pipe::try_from(char), for the characters of a pipe
Pipe_try_from(c) ==
    CASE c = "|" -> "Vertical"
      [] c = "-" -> "Horizontal"
      [] c = "L" -> "NorthAndEast"
      [] c = "J" -> "NorthAndWest"
      [] c = "7" -> "SouthAndWest"
      [] c = "F" -> "SouthAndEast"
      [] c = "." -> "Ground"
      [] c = "S" -> "Start"

\* self.grid[y][x]
PipeAt(grid, c) == grid[c[2] + 1][c[1] + 1]

\* the cell exists: self.grid[y][x] does not panic
CellExists(grid, c) == c[2] < Len(grid) /\ c[1] < Len(grid[c[2] + 1])

\* the lengths of the rows, what util::grid_neighbors looks at
RowLens(grid) == [r \in DOMAIN grid |-> Len(grid[r])]

\* util::Neighbor of the cell n next to <<x, y>> (include_diagonal is false)
NeighborOf(x, y, n) ==
    IF n[2] = y + 1 THEN "Lower"
    ELSE IF n[2] = y - 1 THEN "Upper"
    ELSE IF n[1] = x + 1 THEN "Right"
    ELSE "Left"

Diagonal == {"UpperLeft", "UpperRight", "LowerLeft", "LowerRight"}

\* the arm of `match (current, neighbor, neighbor_pipe)` in Map::next that is
\* taken, arms tried from the top: "return", "continue", "unreachable", "todo"
NextArm(current, neighbor, neighbor_pipe) ==
    IF current = "Start" THEN "return"
    ELSE IF current = "Ground" \/ neighbor_pipe = "Ground" THEN "unreachable"
    ELSE IF neighbor \in Diagonal THEN "unreachable"
    \* Move out of a vertical pipe
    ELSE IF current = "Vertical" /\ neighbor \in {"Left", "Right"} THEN "continue"
    ELSE IF /\ current = "Vertical"
            /\ neighbor \in {"Upper", "Lower"}
            /\ neighbor_pipe \in {"Vertical", "NorthAndEast", "NorthAndWest",
                                  "SouthAndEast", "SouthAndWest", "Start"}
    THEN "return"
    \* Move out of a horizontal pipe
    ELSE IF current = "Horizontal" /\ neighbor \in {"Upper", "Lower"} THEN "continue"
    ELSE IF /\ current = "Horizontal"
            /\ neighbor = "Left"
            /\ neighbor_pipe \in {"Horizontal", "NorthAndEast", "SouthAndEast", "Start"}
    THEN "return"
    ELSE IF /\ current = "Horizontal"
            /\ neighbor = "Right"
            /\ neighbor_pipe \in {"Horizontal", "NorthAndWest", "SouthAndWest", "Start"}
    THEN "return"
    \* Move out of a north/east pipe
    ELSE IF current = "NorthAndEast" /\ neighbor \in {"Left", "Lower"} THEN "continue"
    ELSE IF /\ current = "NorthAndEast"
            /\ neighbor = "Upper"
            /\ neighbor_pipe \in {"Vertical", "SouthAndWest", "SouthAndEast"}
    THEN "return"
    ELSE IF /\ current = "NorthAndEast"
            /\ neighbor = "Right"
            /\ neighbor_pipe \in {"Horizontal", "NorthAndWest", "SouthAndWest", "Start"}
    THEN "return"
    \* Move out of a north/west pipe
    ELSE IF /\ current = "NorthAndWest"
            /\ neighbor \in {"Left", "Upper"}
            /\ neighbor_pipe = "Start"
    THEN "return"
    ELSE IF current = "NorthAndWest" /\ neighbor \in {"Right", "Lower"} THEN "continue"
    ELSE IF /\ current = "NorthAndWest"
            /\ neighbor = "Upper"
            /\ neighbor_pipe \in {"Vertical", "SouthAndWest", "SouthAndEast"}
    THEN "return"
    ELSE IF /\ current = "NorthAndWest"
            /\ neighbor = "Left"
            /\ neighbor_pipe \in {"Horizontal", "NorthAndEast", "SouthAndEast"}
    THEN "return"
    \* Move out of a south/east pipe
    ELSE IF /\ current = "SouthAndEast"
            /\ neighbor \in {"Right", "Lower"}
            /\ neighbor_pipe = "Start"
    THEN "return"
    ELSE IF current = "SouthAndEast" /\ neighbor \in {"Left", "Upper"} THEN "continue"
    ELSE IF /\ current = "SouthAndEast"
            /\ neighbor = "Lower"
            /\ neighbor_pipe \in {"Vertical", "NorthAndWest", "NorthAndEast"}
    THEN "return"
    ELSE IF /\ current = "SouthAndEast"
            /\ neighbor = "Right"
            /\ neighbor_pipe \in {"Horizontal", "NorthAndWest", "SouthAndWest"}
    THEN "return"
    \* Move out of a south/west pipe
    ELSE IF /\ current = "SouthAndWest"
            /\ neighbor \in {"Left", "Lower"}
            /\ neighbor_pipe = "Start"
    THEN "return"
    ELSE IF current = "SouthAndWest" /\ neighbor \in {"Right", "Upper"} THEN "continue"
    ELSE IF /\ current = "SouthAndWest"
            /\ neighbor = "Lower"
            /\ neighbor_pipe \in {"Vertical", "NorthAndEast", "NorthAndWest"}
    THEN "return"
    ELSE IF /\ current = "SouthAndWest"
            /\ neighbor = "Left"
            /\ neighbor_pipe \in {"Horizontal", "NorthAndEast", "SouthAndEast"}
    THEN "return"
    ELSE "todo"

\* Option<(usize, usize)>
NoCell == [some |-> FALSE, pos |-> <<0, 0>>]
SomeCell(c) == [some |-> TRUE, pos |-> c]

\* what Map::next does: it returns a cell ("ok") or panics in todo!(), in
\* unreachable!() or on an index out of bounds ("index")
NextPanic(how) == [kind |-> how, pos |-> <<0, 0>>]

\* for (neighbor_pipe, neighbor) in neighbors { match .. }, from element i on
RECURSIVE NextScan(_, _, _, _)
NextScan(grid, from, kept, i) ==
    IF i > Len(kept)
    THEN NextPanic("unreachable")
    ELSE LET arm == NextArm(PipeAt(grid, from),
                            NeighborOf(from[1], from[2], kept[i]),
                            PipeAt(grid, kept[i]))
         IN  IF arm = "continue" THEN NextScan(grid, from, kept, i + 1)
             ELSE IF arm = "return" THEN [kind |-> "ok", pos |-> kept[i]]
             ELSE NextPanic(arm)

\* Map::next
Map_next(grid, from, prev) ==
    LET ns == grid_neighbors(RowLens(grid), from[1], from[2], FALSE).neighbors
        keep(n) == PipeAt(grid, n) # "Ground" /\ ~(prev.some /\ prev.pos = n)
    IN  IF \E i \in DOMAIN ns : ~CellExists(grid, ns[i])
        THEN NextPanic("index")
        ELSE NextScan(grid, from, SelectSeq(ns, keep), 1)

----------------------------------------------------------------------------
(* The pipe grids explored: a loop, Start on one of its tiles, ground or a  *)
(* stray pipe on the other cells, rows cut off where the loop allows it     *)

PipeCells == (0..(MaxPipeCols - 1)) \X (0..(MaxPipeRows - 1))

Upper(c) == <<c[1], c[2] - 1>>
Lower(c) == <<c[1], c[2] + 1>>
Left(c) == <<c[1] - 1, c[2]>>
Right(c) == <<c[1] + 1, c[2]>>

\* the pipe that joins two of the four sides
PipeJoining(sides) ==
    CASE sides = {"Upper", "Lower"} -> "Vertical"
      [] sides = {"Left", "Right"} -> "Horizontal"
      [] sides = {"Upper", "Right"} -> "NorthAndEast"
      [] sides = {"Upper", "Left"} -> "NorthAndWest"
      [] sides = {"Lower", "Left"} -> "SouthAndWest"
      [] sides = {"Lower", "Right"} -> "SouthAndEast"

\* the sides of c on which L has a cell
SidesIn(L, c) ==
    {s \in {"Upper", "Lower", "Left", "Right"} :
        (CASE s = "Upper" -> Upper(c) [] s = "Lower" -> Lower(c)
           [] s = "Left" -> Left(c) [] s = "Right" -> Right(c)) \in L}

\* the rectangles: every cell has exactly two of its sides on the loop (a
\* grid of this size has room for one such loop only)
RectangleLoops ==
    {[c \in L |-> PipeJoining(SidesIn(L, c))] :
        L \in {K \in SUBSET PipeCells :
                K # {} /\ \A c \in K : Cardinality(SidesIn(K, c)) = 2}}

\* the loops with an inner corner, as the lines of an input
BentLines ==
    {<<<<"F", "-", "7">>, <<"|", "F", "J">>, <<"L", "J", ".">>>>,
     <<<<"F", "-", "7">>, <<"L", "7", "|">>, <<".", "L", "J">>>>,
     <<<<"F", "7", ".">>, <<"|", "L", "7">>, <<"L", "-", "J">>>>,
     <<<<".", "F", "7">>, <<"F", "J", "|">>, <<"L", "-", "J">>>>}

BentLoops ==
    {[c \in {d \in PipeCells : lines[d[2] + 1][d[1] + 1] # "."}
        |-> Pipe_try_from(lines[c[2] + 1][c[1] + 1])] : lines \in BentLines}

Loops == RectangleLoops \cup BentLoops

Filler == {"Ground", "Horizontal"}

\* Map { grid, start }: loop with the tile at s replaced by Start, fill on
\* the cells off the loop, row y cut to widths[y + 1] cells
PipeMap(loop, s, fill, widths) ==
    [grid |-> [r \in 1..MaxPipeRows |->
                [k \in 1..widths[r] |->
                    LET c == <<k - 1, r - 1>>
                    IN  IF c = s THEN "Start"
                        ELSE IF c \in DOMAIN loop THEN loop[c]
                        ELSE fill[c]]],
     start |-> s]

PipeMaps ==
    UNION {{PipeMap(loop, s, fill, widths) :
                s \in DOMAIN loop,
                fill \in [PipeCells \ DOMAIN loop -> Filler],
                widths \in {w \in [1..MaxPipeRows -> 0..MaxPipeCols] :
                                \A c \in DOMAIN loop : c[1] < w[c[2] + 1]}} :
            loop \in Loops}

InitPipes ==
    /\ lMap \in PipeMaps
    /\ lWalk = [curr |-> <<0, 0>>, prev |-> NoCell, len |-> 0, ret |-> 0]
    /\ lpc = "ready"

PipesIdle ==
    /\ lMap = [grid |-> <<>>, start |-> <<0, 0>>]
    /\ lWalk = [curr |-> <<0, 0>>, prev |-> NoCell, len |-> 0, ret |-> 0]
    /\ lpc = "off"

\* fn cycle_len(&self): len = 0; curr = self.start; prev = None
CycleLenCall ==
    /\ lpc = "ready"
    /\ lWalk' = [curr |-> lMap.start, prev |-> NoCell, len |-> 0, ret |-> 0]
    /\ lpc' = "loop"
    /\ UNCHANGED lMap
    /\ UNCHANGED notPipes

\* one iteration of the `loop` of cycle_len
CycleLenStep ==
    /\ lpc = "loop"
    /\ lWalk.len < MaxWalk
    /\ LET next == Map_next(lMap.grid, lWalk.curr, lWalk.prev)
       IN  IF next.kind # "ok"
           THEN /\ lpc' = next.kind
                /\ UNCHANGED lWalk
           ELSE IF next.pos = lMap.start
           THEN /\ lpc' = "done"
                /\ lWalk' = [lWalk EXCEPT !.len = @ + 1, !.ret = 1 + ((lWalk.len + 1) \div 2)]
           ELSE /\ lpc' = "loop"
                /\ lWalk' = [curr |-> next.pos, prev |-> SomeCell(lWalk.curr),
                             len |-> lWalk.len + 1, ret |-> 0]
    /\ UNCHANGED lMap
    /\ UNCHANGED notPipes

----------------------------------------------------------------------------
(* Specifications.  Each one runs one part of the program; the variables   *)
(* of the other parts stay at their idle values.                            *)

\* Almanac::seed_range_to_min_location on the almanacs explored
Init == MapIdle /\ ParseIdle /\ ScoreIdle /\ CmpIdle /\ HandsIdle /\ GridIdle /\ OasisIdle /\ CalIdle /\ CardIdle /\ EngineIdle /\ AlmIdle /\ StepsIdle /\ PipesIdle /\ InitRun
Next == Call \/ Iterate \/ Return
Spec == Init /\ [][Next]_vars

\* the method body runs to its end once called: no step of the loop and no
\* return waits for anything
InitFair == MapIdle /\ ParseIdle /\ ScoreIdle /\ CmpIdle /\ HandsIdle /\ GridIdle /\ OasisIdle /\ CalIdle /\ CardIdle /\ EngineIdle /\ AlmIdle /\ StepsIdle /\ PipesIdle /\ InitRunFair
SpecFair == InitFair /\ [][Next]_vars /\ WF_vars(Iterate) /\ WF_vars(Return)

\* Almanac::map on one interval and one stage
InitMap == RunIdle /\ ParseIdle /\ ScoreIdle /\ CmpIdle /\ HandsIdle /\ GridIdle /\ OasisIdle /\ CalIdle /\ CardIdle /\ EngineIdle /\ AlmIdle /\ StepsIdle /\ PipesIdle /\ InitMapRun
NextMap == MapCall
SpecMap == InitMap /\ [][NextMap]_vars

\* Almanac::map on one interval and one rule: MappingRange::transform
InitRule == RunIdle /\ ParseIdle /\ ScoreIdle /\ CmpIdle /\ HandsIdle /\ GridIdle /\ OasisIdle /\ CalIdle /\ CardIdle /\ EngineIdle /\ AlmIdle /\ StepsIdle /\ PipesIdle /\ InitOneRule
NextRule == MapCall
SpecRule == InitRule /\ [][NextRule]_vars

\* MappingRange::from_str on one line
InitLine == MapIdle /\ RunIdle /\ ScoreIdle /\ CmpIdle /\ HandsIdle /\ GridIdle /\ OasisIdle /\ CalIdle /\ CardIdle /\ EngineIdle /\ AlmIdle /\ StepsIdle /\ PipesIdle /\ InitParse
NextLine == ParseLine
SpecParse == InitLine /\ [][NextLine]_vars

\* Hand::from_str on one hand
InitHand == MapIdle /\ RunIdle /\ ParseIdle /\ CmpIdle /\ HandsIdle /\ GridIdle /\ OasisIdle /\ CalIdle /\ CardIdle /\ EngineIdle /\ AlmIdle /\ StepsIdle /\ PipesIdle /\ InitScore
NextHand == ParseHand
SpecScore == InitHand /\ [][NextHand]_vars

\* Hand::cmp on two hands
InitPair == MapIdle /\ RunIdle /\ ParseIdle /\ ScoreIdle /\ HandsIdle /\ GridIdle /\ OasisIdle /\ CalIdle /\ CardIdle /\ EngineIdle /\ AlmIdle /\ StepsIdle /\ PipesIdle /\ InitCmp
NextPair == Compare
SpecCmp == InitPair /\ [][NextPair]_vars

\* Hands::try_from on a list of lines
InitLines == MapIdle /\ RunIdle /\ ParseIdle /\ ScoreIdle /\ CmpIdle /\ GridIdle /\ OasisIdle /\ CalIdle /\ CardIdle /\ EngineIdle /\ AlmIdle /\ StepsIdle /\ PipesIdle /\ InitHands
NextLines == TryFrom
SpecHands == InitLines /\ [][NextLines]_vars

\* util::grid_neighbors on one grid and one cell
InitCell == MapIdle /\ RunIdle /\ ParseIdle /\ ScoreIdle /\ CmpIdle /\ HandsIdle /\ OasisIdle /\ CalIdle /\ CardIdle /\ EngineIdle /\ AlmIdle /\ StepsIdle /\ PipesIdle /\ InitGrid
NextCell == Neighbors
SpecGrid == InitCell /\ [][NextCell]_vars

\* OasisReadings::next_value on one sequence of readings
InitReadings == MapIdle /\ RunIdle /\ ParseIdle /\ ScoreIdle /\ CmpIdle /\ HandsIdle /\ GridIdle /\ CalIdle /\ CardIdle /\ EngineIdle /\ AlmIdle /\ StepsIdle /\ PipesIdle /\ InitOasis
NextReadings == NextValue
SpecOasis == InitReadings /\ [][NextReadings]_vars

\* CalibrationValue::from_str on one line
InitCalLine == MapIdle /\ RunIdle /\ ParseIdle /\ ScoreIdle /\ CmpIdle /\ HandsIdle /\ GridIdle /\ OasisIdle /\ CardIdle /\ EngineIdle /\ AlmIdle /\ StepsIdle /\ PipesIdle /\ InitCal
NextCalLine == Calibrate
SpecCal == InitCalLine /\ [][NextCalLine]_vars

\* a scratch card: from_str, then calls of winner_ct and value
InitCardLine == MapIdle /\ RunIdle /\ ParseIdle /\ ScoreIdle /\ CmpIdle /\ HandsIdle /\ GridIdle /\ OasisIdle /\ CalIdle /\ EngineIdle /\ AlmIdle /\ StepsIdle /\ PipesIdle /\ InitCard
NextCard == FromStr \/ WinnerCt \/ Value
SpecCard == InitCardLine /\ [][NextCard]_vars

\* an engine schematic: try_from, then gears
InitSchematic == MapIdle /\ RunIdle /\ ParseIdle /\ ScoreIdle /\ CmpIdle /\ HandsIdle /\ GridIdle /\ OasisIdle /\ CalIdle /\ CardIdle /\ AlmIdle /\ StepsIdle /\ PipesIdle /\ InitEngine
NextEngine == BuildSchematic \/ Gears
SpecEngine == InitSchematic /\ [][NextEngine]_vars

\* Almanac::try_from on the seed line
InitSeedLine == MapIdle /\ RunIdle /\ ParseIdle /\ ScoreIdle /\ CmpIdle /\ HandsIdle /\ GridIdle /\ OasisIdle /\ CalIdle /\ CardIdle /\ EngineIdle /\ StepsIdle /\ PipesIdle /\ InitSeeds
NextSeeds == AlmanacTryFrom
SpecSeeds == InitSeedLine /\ [][NextSeeds]_vars

\* Map::steps from one start node
InitWalk == MapIdle /\ RunIdle /\ ParseIdle /\ ScoreIdle /\ CmpIdle /\ HandsIdle /\ GridIdle /\ OasisIdle /\ CalIdle /\ CardIdle /\ EngineIdle /\ AlmIdle /\ PipesIdle /\ InitSteps
NextSteps == StepsCall \/ StepsMove
SpecSteps == InitWalk /\ [][NextSteps]_vars

\* Map::cycle_len on one grid
InitPipeMap == MapIdle /\ RunIdle /\ ParseIdle /\ ScoreIdle /\ CmpIdle /\ HandsIdle /\ GridIdle /\ OasisIdle /\ CalIdle /\ CardIdle /\ EngineIdle /\ AlmIdle /\ StepsIdle /\ InitPipes
NextPipes == CycleLenCall \/ CycleLenStep
SpecPipes == InitPipeMap /\ [][NextPipes]_vars

----------------------------------------------------------------------------
(* The point-wise reading of a stage, against which the interval code is    *)
(* checked: a point inside a rule's source range [from, from+len) is shifted *)
(* by to - from, any other point is kept.                                    *)

Points(r) == r.start .. (r.start + r.len - 1)
Source(m) == m.from .. (m.from + m.len - 1)

\* the rules of a stage have pairwise disjoint source ranges
Disjoint(entries) ==
    \A i, j \in DOMAIN entries : i # j => Source(entries[i]) \cap Source(entries[j]) = {}

\* the image of point v under the rules entries[i..] (the first rule that holds v)
RECURSIVE PointFrom(_, _, _)
PointFrom(entries, i, v) ==
    IF i > Len(entries)
    THEN v
    ELSE IF v \in Source(entries[i])
    THEN v + (entries[i].to - entries[i].from)
    ELSE PointFrom(entries, i + 1, v)

PointMap(entries, v) == PointFrom(entries, 1, v)

\* number of pieces of rs that hold point p (a piece holds a point at most once)
CountIn(rs, p) == Cardinality({k \in DOMAIN rs : p \in Points(rs[k])})

\* all points an interval or an image of one can lie on
Universe == 0 .. (2 * MaxVal + 2 * MaxLen)

RECURSIVE SumLen(_)
SumLen(rs) == IF rs = <<>> THEN 0 ELSE rs[1].len + SumLen(Tail(rs))

SetMin(S) == CHOOSE x \in S : \A y \in S : x <= y
Max(a, b) == IF a >= b THEN a ELSE b

\* following stage destinations from e reaches location without revisiting a category
RECURSIVE ReachesLocation(_, _, _)
ReachesLocation(maps, e, seen) ==
    IF e = "Location" THEN TRUE
    ELSE IF e \in seen \/ e \notin DOMAIN maps THEN FALSE
    ELSE ReachesLocation(maps, maps[e].to, seen \cup {e})

SimplePath(maps) == ReachesLocation(maps, "Seed", {})

\* the location of seed value v, mapped point-wise through each stage in turn
RECURSIVE LocationOf(_, _, _)
LocationOf(maps, e, v) ==
    IF e = "Location" THEN v
    ELSE LocationOf(maps, maps[e].to, PointMap(maps[e].entries, v))

SeedPoints == UNION {Points(seeds[k]) : k \in DOMAIN seeds}

MinLocation == SetMin({LocationOf(mappings, "Seed", v) : v \in SeedPoints})

----------------------------------------------------------------------------
(* Claims *)

\* C1: for a stage graph that is a simple path from Seed to Location whose
\* rules are pairwise disjoint within each stage, and a non-empty seed list,
\* seed_range_to_min_location returns the minimum location over every
\* integer of every seed interval, mapped point-wise through each stage.
C1_ReturnsMinLocation ==
    (/\ pc = "done"
     /\ seeds # <<>>
     /\ SimplePath(mappings)
     /\ \A e \in DOMAIN mappings : Disjoint(mappings[e].entries))
    => result = MinLocation

\* the rule's source range and the interval share at least one integer
Overlaps(m, r) == Source(m) \cap Points(r) # {}

\* the interval lies fully inside the rule's source range
Inside(m, r) == m.from <= r.start /\ r.start + r.len <= m.from + m.len

\* piece q is a sub-range of interval r that lies outside the source range of m
RemainderOf(q, r, m) ==
    /\ r.start <= q.start
    /\ q.start + q.len <= r.start + r.len
    /\ (q.start + q.len <= m.from \/ q.start >= m.from + m.len)

\* intervals and rules of length >= 1 only
Proper == mRange.len >= 1 /\ \A i \in DOMAIN mEntries : mEntries[i].len >= 1

\* C2: coverage: the pieces Almanac::map returns cover, as a multiset of
\* points, exactly the image of the interval's points under the stage's
\* point-wise mapping: no point dropped, none represented twice.
C2_Coverage ==
    (mpc = "called" /\ Proper)
    => \A p \in Universe :
        CountIn(mOut, p) = Cardinality({v \in Points(mRange) : PointMap(mEntries, v) = p})

\* C3: length conservation: the lengths of the pieces Almanac::map returns
\* for an interval sum to the interval's length.
C3_LengthConserved == mpc = "called" => SumLen(mOut) = mRange.len

\* C3 witness: a rule split the interval into two non-empty pieces
C3_Witness ==
    /\ mpc = "called"
    /\ Len(mOut) = 2
    /\ mOut[1].len >= 1
    /\ mOut[2].len >= 1
    /\ mOut[1].len + mOut[2].len = mRange.len

\* C4: identity on non-overlap: an interval that shares no integer with the
\* source range of any rule of the stage gets None from every rule's
\* transform and comes back from Almanac::map as the one-element list
\* holding it unchanged (intervals and rules of length >= 1).
C4_IdentityOnNonOverlap ==
    (mpc = "called" /\ Proper /\ \A i \in DOMAIN mEntries : ~Overlaps(mEntries[i], mRange))
    => /\ \A i \in DOMAIN mEntries : transform(mEntries[i], mRange) = None
       /\ mOut = <<mRange>>

\* C5: on a partial overlap the transformed piece is the intersection shifted
\* by to - from, and every other piece is an untransformed sub-range of the
\* input outside the rule's source range.
C5_PartialOverlap ==
    (mpc = "called" /\ Proper)
    => \A i \in DOMAIN mEntries :
        LET m == mEntries[i]
            t == transform(m, mRange)
            shifted == [start |-> Max(mRange.start, m.from) + (m.to - m.from),
                        len |-> Cardinality(Source(m) \cap Points(mRange))]
        IN  (Overlaps(m, mRange) /\ ~Inside(m, mRange))
            => /\ t.some
               /\ \E k \in DOMAIN t.ranges :
                    /\ t.ranges[k] = shifted
                    /\ \A j \in DOMAIN t.ranges \ {k} : RemainderOf(t.ranges[j], mRange, m)

\* the first rule of the stage whose source range overlaps the interval
FirstOverlap ==
    CHOOSE i \in DOMAIN mEntries :
        /\ Overlaps(mEntries[i], mRange)
        /\ \A j \in 1..(i - 1) : ~Overlaps(mEntries[j], mRange)

\* C6: a remainder left by splitting at one rule's boundary is evaluated
\* against the stage's other rules: where it overlaps another rule's source
\* range, the overlapping part appears in the stage's output shifted by that
\* rule (rules with pairwise disjoint source ranges).
C6_RemainderMapped ==
    (/\ mpc = "called"
     /\ Proper
     /\ Disjoint(mEntries)
     /\ \E i \in DOMAIN mEntries : Overlaps(mEntries[i], mRange))
    => \A j \in DOMAIN mEntries \ {FirstOverlap} :
        \A v \in (Points(mRange) \ Source(mEntries[FirstOverlap])) \cap Source(mEntries[j]) :
            CountIn(mOut, v + (mEntries[j].to - mEntries[j].from)) >= 1

\* C7: an interval fully inside a rule's source range gets exactly one piece
\* from transform, shifted by to - from and of the same length; rule
\* (dest 52, source 50, length 48) takes {79, 14} to {81, 14}.
C7_FullyInside ==
    /\ \A i \in DOMAIN mEntries :
        Inside(mEntries[i], mRange)
        => transform(mEntries[i], mRange)
            = Some(<<[start |-> mRange.start + (mEntries[i].to - mEntries[i].from),
                      len |-> mRange.len]>>)
    /\ (mpc = "called" /\ mEntries # <<>> /\ Inside(mEntries[1], mRange))
        => mOut = <<[start |-> mRange.start + (mEntries[1].to - mEntries[1].from),
                     len |-> mRange.len]>>
    /\ transform([from |-> 50, to |-> 52, len |-> 48], [start |-> 79, len |-> 14])
        = Some(<<[start |-> 81, len |-> 14]>>)

\* C7 witness: Almanac::map returned an interval of length >= 1 lying inside
\* the first rule, shifted to another place
C7_Witness ==
    /\ mpc = "called"
    /\ mEntries # <<>>
    /\ Inside(mEntries[1], mRange)
    /\ mRange.len >= 1
    /\ mEntries[1].to # mEntries[1].from
    /\ mOut = <<[start |-> mRange.start + (mEntries[1].to - mEntries[1].from),
                 len |-> mRange.len]>>

\* C8: lookup failure: whenever the traversal stands at a category other
\* than Location that holds no stage, the run ends with an error: it
\* neither returns a value nor goes on looping, for every seed list.
C8_LookupFailure ==
    [][(pc = "loop" /\ entry # "Location" /\ entry \notin DOMAIN mappings)
        => pc' = "error"]_vars

\* C9: empty result: with an empty working interval set (an almanac without
\* seed intervals) the run ends by reporting an error; it does not crash,
\* loop on or return a number.
C9_EmptyResult ==
    [][(pc = "loop" /\ seeds = <<>> /\ ranges = <<>>) => pc' = "error"]_vars

\* the line is three whitespace-separated non-negative integers
ThreeIntegers(s) ==
    LET toks == split_ascii_whitespace(s)
    IN  /\ Len(toks) = 3
        /\ \A i \in 1..3 : toks[i] # <<>> /\ \A k \in DOMAIN toks[i] : toks[i][k] \in Digit

\* C10: from_str accepts a line exactly when it is three whitespace-separated
\* non-negative integers, assigned in order to (to, from, len); a line with
\* another token count or with a non-numeric token anywhere is rejected.
C10_AcceptsExactlyThreeIntegers ==
    ppc = "called"
    => /\ parsed.ok <=> ThreeIntegers(line)
       /\ parsed.ok =>
            LET toks == split_ascii_whitespace(line)
            IN  /\ parsed.to = DecimalValue(toks[1])
                /\ parsed.from = DecimalValue(toks[2])
                /\ parsed.len = DecimalValue(toks[3])

\* C11: determinism: a second call of seed_range_to_min_location on the
\* same almanac returns what the first call returned, and no step of a call
\* changes the almanac's seed list or stage graph.
C11_Deterministic ==
    /\ [](Returned => \A k \in DOMAIN outcomes :
            outcomes[k] = [status |-> pc, result |-> result])
    /\ [][seeds' = seeds /\ mappings' = mappings]_vars

\* C11 witness: a second call has returned a value after splitting an interval
C11_Witness ==
    /\ pc = "done"
    /\ outcomes # <<>>
    /\ outcomes[1].status = "done"
    /\ Len(ranges) > Len(seeds)

\* the rules of the stage whose transform returns Some for the interval
Applicable == {i \in DOMAIN mEntries : transform(mEntries[i], mRange).some}

\* C20: first applicable rule wins: Mapping::get returns the pieces of the
\* first rule, in declaration order, whose transform returns Some, and no
\* other rule of the stage touches them; without such a rule Almanac::map
\* returns the interval itself.  The stage (dest 50, source 98, length 2),
\* (dest 52, source 50, length 48) maps {79, 14} to {81, 14}.
C20_FirstRuleWins ==
    /\ mpc = "called"
        => IF Applicable = {}
           THEN MappingGet(mEntries, mRange) = None /\ mOut = <<mRange>>
           ELSE LET first == SetMin(Applicable)
                IN  /\ MappingGet(mEntries, mRange) = transform(mEntries[first], mRange)
                    /\ mOut = transform(mEntries[first], mRange).ranges
    /\ MapRanges(<<[from |-> 98, to |-> 50, len |-> 2], [from |-> 50, to |-> 52, len |-> 48]>>,
                 [start |-> 79, len |-> 14])
        = <<[start |-> 81, len |-> 14]>>

\* C20 witness: two rules apply to the interval with different results and
\* the stage returned the pieces of the first
C20_Witness ==
    /\ mpc = "called"
    /\ Len(mEntries) = 2
    /\ Applicable = {1, 2}
    /\ transform(mEntries[1], mRange) # transform(mEntries[2], mRange)
    /\ mOut = transform(mEntries[1], mRange).ranges

----------------------------------------------------------------------------
(* Day 7: what the hands and their order should be *)

\* a line is a five-card hand, one space and a decimal bid
WellFormedLine(l) ==
    /\ Len(l) >= 7
    /\ \A i \in 1..5 : l[i] \in PlayChars(12)
    /\ l[6] = " "
    /\ \A i \in 7..Len(l) : l[i] \in Digit

\* C12: Hands::try_from returns an error whenever some input line is not a
\* five-card hand followed by a bid; it never returns a list of hands that
\* leaves out that line and the lines after it.
C12_MalformedLineIsError ==
    tpc = "called"
    => /\ (\E i \in DOMAIN tLines : ~WellFormedLine(tLines[i])) => ~tHands.ok
       /\ tHands.ok => Len(tHands.hands) = Len(tLines)

\* the hand types, weakest first
TypeOrder ==
    <<"HighCard", "Pair", "TwoPair", "ThreeOfAKind", "FullHouse", "FourOfAKind",
      "FiveOfAKind">>

Strength(t) == CHOOSE i \in DOMAIN TypeOrder : TypeOrder[i] = t

\* the type of a hand without wild cards, from how many kinds it holds
ClassicType(hand) ==
    LET kinds == {hand[p] : p \in DOMAIN hand}
        n(k) == Cardinality({p \in DOMAIN hand : hand[p] = k})
        most == CHOOSE c \in 1..5 : (\E k \in kinds : n(k) = c) /\ (\A k \in kinds : n(k) <= c)
    IN  CASE Cardinality(kinds) = 1 -> "FiveOfAKind"
          [] Cardinality(kinds) = 2 /\ most = 4 -> "FourOfAKind"
          [] Cardinality(kinds) = 2 /\ most = 3 -> "FullHouse"
          [] Cardinality(kinds) = 3 /\ most = 3 -> "ThreeOfAKind"
          [] Cardinality(kinds) = 3 /\ most = 2 -> "TwoPair"
          [] Cardinality(kinds) = 4 -> "Pair"
          [] Cardinality(kinds) = 5 -> "HighCard"

\* the hands got by replacing each joker by a non-joker kind.  The kinds are
\* those in play: a hand with j jokers holds at most 5 - j of the NumKinds
\* kinds, so at least j kinds that it does not hold are among them, and a
\* kind the hand does not hold acts as any other such kind.
Replacements(hand) ==
    LET jokers == {p \in DOMAIN hand : hand[p] = "Joker"}
        kinds == {CardOfChar(CardChars[i]) : i \in 1..NumKinds}
    IN  {[p \in DOMAIN hand |-> IF p \in jokers THEN f[p] ELSE hand[p]] :
            f \in [jokers -> kinds]}

\* the strongest type among the replacements
Strongest(hand) ==
    LET types == {ClassicType(h) : h \in Replacements(hand)}
    IN  CHOOSE t \in types : \A u \in types : Strength(u) <= Strength(t)

\* C13: HandType::score returns the strongest hand type obtainable by
\* replacing each joker by a non-joker kind; five jokers score five of a kind.
C13_ScoreIsStrongest ==
    /\ spc = "called" => sHand.ok /\ sHand.hand_type = Strongest(sHand.hand)
    /\ score([p \in 1..5 |-> "Joker"]) = "FiveOfAKind"

C13_Witness ==
    /\ spc = "called"
    /\ Cardinality({p \in 1..5 : sHand.hand[p] = "Joker"}) = 2
    /\ Cardinality({sHand.hand[p] : p \in 1..5}) = 3
    /\ sHand.hand_type = "FourOfAKind"

\* the cards, weakest first: A > K > Q > T > 9 > ... > 2 > joker
CardOrderWeakest ==
    <<"Joker", "Two", "Three", "Four", "Five", "Six", "Seven", "Eight", "Nine",
      "Ten", "Queen", "King", "Ace">>

CardStrength(c) == CHOOSE i \in DOMAIN CardOrderWeakest : CardOrderWeakest[i] = c

\* the key of a hand: its type, then its cards from the first
HandKey(h) == <<Strength(h.hand_type)>> \o [p \in 1..5 |-> CardStrength(h.hand[p])]

\* lexicographic comparison of two keys of the same length
KeyCmp(a, b) ==
    IF a = b THEN "Equal"
    ELSE LET i == CHOOSE k \in DOMAIN a : a[k] # b[k] /\ \A j \in 1..(k - 1) : a[j] = b[j]
         IN  IF a[i] < b[i] THEN "Less" ELSE "Greater"

Reverse(o) == CASE o = "Less" -> "Greater" [] o = "Greater" -> "Less" [] OTHER -> o

\* the third hands of the transitivity check
ThirdHands == {Hand_from_str(s) : s \in ExampleHands}

\* C14: Hand::cmp compares the hand type first and then the cards position
\* by position by rank; it is Equal exactly for the same five cards in the
\* same order, antisymmetric and transitive.
C14_TotalOrder ==
    cpc = "called"
    => /\ cOrd = KeyCmp(HandKey(cA), HandKey(cB))
       /\ cOrd = "Equal" <=> cA.hand = cB.hand
       /\ Hand_cmp(cB, cA) = Reverse(cOrd)
       /\ \A c \in ThirdHands :
            cOrd # "Greater" /\ Hand_cmp(cB, c) # "Greater" => Hand_cmp(cA, c) # "Greater"

C14_Witness ==
    /\ cpc = "called"
    /\ cOrd = "Greater"
    /\ cA.hand_type = "FourOfAKind" /\ cB.hand_type = "FourOfAKind"
    /\ Card_cmp(cA.hand[1], cB.hand[1]) = "Equal"
    /\ Card_cmp(cA.hand[2], cB.hand[2]) = "Greater"

----------------------------------------------------------------------------
(* util: the neighbours of a cell *)

Rectangular(grid) == \A i, j \in DOMAIN grid : grid[i] = grid[j]

InBounds(grid, x, y) == y + 1 \in DOMAIN grid /\ x >= 0 /\ x < grid[y + 1]

Abs(n) == IF n < 0 THEN -n ELSE n

\* the in-bounds cells at distance 1 of (x, y): Chebyshev distance with the
\* diagonals, Manhattan distance without
CellsAtDistanceOne(grid, x, y, diagonal) ==
    {c \in ((x - 1)..(x + 1)) \X ((y - 1)..(y + 1)) :
        /\ c[2] >= 0 /\ InBounds(grid, c[1], c[2])
        /\ IF diagonal
           THEN Max(Abs(c[1] - x), Abs(c[2] - y)) = 1
           ELSE Abs(c[1] - x) + Abs(c[2] - y) = 1}

\* C15: on a rectangular grid and an in-bounds cell, grid_neighbors returns
\* exactly the in-bounds cells at distance 1, each once and never the cell
\* itself.
C15_NeighborsExact ==
    gpc = "called" /\ Rectangular(gGrid) /\ InBounds(gGrid, gX, gY)
    => /\ ~gOut.panic
       /\ {gOut.neighbors[i] : i \in DOMAIN gOut.neighbors}
            = CellsAtDistanceOne(gGrid, gX, gY, gDiag)
       /\ \A i, j \in DOMAIN gOut.neighbors : gOut.neighbors[i] = gOut.neighbors[j] => i = j
       /\ \A i \in DOMAIN gOut.neighbors : gOut.neighbors[i] # <<gX, gY>>

C15_Witness ==
    /\ gpc = "called" /\ Rectangular(gGrid) /\ InBounds(gGrid, gX, gY)
    /\ gDiag
    /\ Len(gOut.neighbors) = 8

----------------------------------------------------------------------------
(* Day 9: the extrapolated reading *)

AllZero(row) == \A n \in DOMAIN row : row[n] = 0

\* the sum of the last elements of the rows from `row` on, each row the
\* differences of the one before, until a row is all zeros or empty
RECURSIVE SumOfLasts(_)
SumOfLasts(row) ==
    IF row = <<>> \/ AllZero(row)
    THEN 0
    ELSE row[Len(row)] + SumOfLasts([n \in 1..(Len(row) - 1) |-> row[n + 1] - row[n]])

\* C16: for at least two readings next_value returns the last reading plus
\* the last element of every successive difference row, the rows being built
\* until one is all zeros or has no elements left.
C16_NextValue ==
    opc = "called" /\ Len(oReadings) >= 2
    => /\ ~oOut.panic
       /\ oOut.value = SumOfLasts(oReadings)

----------------------------------------------------------------------------
(* Day 1: the first and the last digit of a line *)

\* every occurrence of a digit, as a character or spelled: where it starts
\* and what it is worth
Occurrences(s) ==
    {[at |-> i, v |-> d] : i \in 0..(Len(s) - 1), d \in 1..9} \cap
    {o \in [at : 0..(Len(s) - 1), v : 1..9] :
        \/ s[o.at + 1] = DigitChars[o.v + 1]
        \/ MatchesAt(s, DigitWords[o.v], o.at)}

\* C17: from_str returns 10*a + b, a being the digit whose occurrence starts
\* at the smallest index and b the one whose occurrence starts at the
\* largest, also for overlapping spelled digits; a line without a digit is
\* an error.
C17_FirstAndLastDigit ==
    dpc = "called"
    => LET occ == Occurrences(dLine)
       IN  IF occ = {}
           THEN ~dOut.ok
           ELSE LET a == CHOOSE o \in occ : \A p \in occ : o.at <= p.at
                    b == CHOOSE o \in occ : \A p \in occ : o.at >= p.at
                IN  dOut.ok /\ dOut.val = 10 * a.v + b.v

\* the line 'twone', with the two spelled digits sharing the o
C17_Witness ==
    /\ dpc = "called"
    /\ dLine = <<"t", "w", "o", "n", "e">>
    /\ dOut = [ok |-> TRUE, val |-> 21]

----------------------------------------------------------------------------
(* Day 4: the winning numbers of a card *)

\* how many of the card's winning numbers are among its own numbers
WinnersOf(card) ==
    Cardinality({i \in DOMAIN card.winning_numbers :
        \E j \in DOMAIN card.numbers : card.numbers[j] = card.winning_numbers[i]})

\* C18: on a card built by from_str, winner_ct returns the number of winning
\* numbers that occur among the card's numbers, on the first call and from
\* the memo on every later one, and value() is 2^(winner_ct - 1) for
\* winner_ct > 0 and 0 otherwise.
C18_WinnerCount ==
    kpc = "built" /\ kCard.ok
    => /\ kCard.winner_ct.some => kCard.winner_ct.v = WinnersOf(kCard)
       /\ kRet.fn = "winner_ct" => kRet.v = WinnersOf(kCard)
       /\ kRet.fn = "value" =>
            kRet.v = IF WinnersOf(kCard) > 0 THEN 2 ^ (WinnersOf(kCard) - 1) ELSE 0
       /\ kCalls > 0 => kCard.winner_ct.some

\* a second call, answered from the memo, on a card whose numbers were not
\* in order on the line
C18_Witness ==
    /\ kpc = "built" /\ kCard.ok
    /\ kCalls = 2
    /\ kRet = [fn |-> "value", v |-> 2]
    /\ kCard.numbers = <<1, 2, 3>>
    /\ kLine = <<"C", ":", " ", "1", " ", "3", " ", "|", " ", "2", " ", "3", " ", "1">>

----------------------------------------------------------------------------
(* Day 3: the gears of a schematic *)

\* the numbers of the schematic: the maximal runs of digits of a line, as
\* [y, from, to] with from and to the first and last x of the run
NumbersOf(lines) ==
    {r \in [y : 0..(Len(lines) - 1), from : 0..(MaxWidth + 1), to : 0..(MaxWidth + 1)] :
        LET ln == lines[r.y + 1]
        IN  /\ r.from <= r.to /\ r.to < Len(ln)
            /\ \A x \in r.from..r.to : ln[x + 1] \in Digit
            /\ r.from > 0 => ln[r.from] \notin Digit
            /\ r.to + 1 < Len(ln) => ln[r.to + 2] \notin Digit}

ValueOf(lines, r) == DecimalValue(SubSeq(lines[r.y + 1], r.from + 1, r.to + 1))

\* the numbers with a digit among the eight cells around (x, y)
Touching(lines, x, y) ==
    {r \in NumbersOf(lines) :
        /\ Abs(r.y - y) <= 1
        /\ \E c \in r.from..r.to : Abs(c - x) <= 1
        /\ ~(r.y = y /\ x \in r.from..r.to)}

\* the '*' cells that touch exactly two numbers, in reading order
GearCells(lines) ==
    SelectSeq(CellsFrom(lines, 0),
        LAMBDA c : lines[c[2] + 1][c[1] + 1] = "*"
                   /\ Cardinality(Touching(lines, c[1], c[2])) = 2)

AsNumWithPosition(lines, r) ==
    [value |-> ValueOf(lines, r), position |-> [x |-> r.from, y |-> r.y],
     length |-> r.to - r.from + 1]

\* C19: gears returns one gear for each '*' cell whose eight neighbours
\* touch exactly two distinct numbers (equal values at different positions
\* being distinct) and no other gear; the ratio of a gear is the product of
\* its two numbers.
C19_Gears ==
    epc = "called"
    => LET cells == GearCells(eLines)
       IN  /\ ~eGears.panic
           /\ Len(eGears.gears) = Len(cells)
           /\ \A k \in DOMAIN cells :
                LET two == Touching(eLines, cells[k][1], cells[k][2])
                IN  /\ eGears.gears[k] = {AsNumWithPosition(eLines, r) : r \in two}
                    /\ \E a, b \in two :
                        a # b /\ ratio(eGears.gears[k]) = ValueOf(eLines, a) * ValueOf(eLines, b)

----------------------------------------------------------------------------
(* Day 5: the pieces of one rule *)

\* the interval reaches beyond both ends of the rule's source range
Straddles(rule, v) ==
    v.start < rule.from /\ v.start + v.len > rule.from + rule.len

\* C21: an interval that extends beyond both ends of a rule's source range
\* comes back as three pieces: the left remainder [start, from) as it is,
\* the middle [from, from+len) shifted by to - from, and the right remainder
\* [from+len, start+len) as it is.
C21_ThreePieces ==
    mpc = "called" /\ Len(mEntries) = 1 /\ Straddles(mEntries[1], mRange)
    => LET rule == mEntries[1]
       IN  /\ transform(rule, mRange).some
           /\ mOut = <<[start |-> mRange.start, len |-> rule.from - mRange.start],
                       [start |-> rule.to, len |-> rule.len],
                       [start |-> rule.from + rule.len,
                        len |-> mRange.start + mRange.len - (rule.from + rule.len)]>>

\* C22: no empty pieces: for an interval and a rule of length >= 1 every
\* piece returned by transform has length >= 1, so no zero-length interval
\* enters the working set or is the element whose start is returned.
C22_NoEmptyPieces ==
    /\ \A i \in DOMAIN ranges : ranges[i].len >= 1
    /\ pc = "loop" /\ entry \in DOMAIN mappings
        => \A n \in DOMAIN mappings[entry].entries, i \in DOMAIN ranges :
            LET pieces == transform(mappings[entry].entries[n], ranges[i])
            IN  mappings[entry].entries[n].len >= 1 /\ ranges[i].len >= 1 /\ pieces.some
                => \A k \in DOMAIN pieces.ranges : pieces.ranges[k].len >= 1
    /\ pc = "done" => \E i \in DOMAIN ranges : ranges[i].start = result /\ ranges[i].len >= 1
----------------------------------------------------------------------------
(* Day 5: the walk along the stage graph *)

\* the pieces of every interval of rs under the rules of one stage, in the
\* order of rs
RECURSIVE StagePieces(_, _)
StagePieces(entries, rs) ==
    IF rs = <<>>
    THEN <<>>
    ELSE MapRanges(entries, rs[1]) \o StagePieces(entries, Tail(rs))

RECURSIVE PathLen(_, _)
PathLen(maps, e) ==
    IF e = "Location" THEN 0 ELSE 1 + PathLen(maps, maps[e].to)

\* C24: termination: when the stage destinations lead from Seed to Location
\* without revisiting a category and there is a seed interval, a call
\* returns a value, and it has then applied exactly as many stages as the
\* path from Seed to Location has.
C24_Terminates ==
    /\ (pc = "loop" /\ SimplePath(mappings) /\ seeds # <<>>) ~> (pc = "done")
    /\ []((pc = "done" /\ SimplePath(mappings) /\ seeds # <<>>)
            => iters = PathLen(mappings, "Seed"))

\* C24 witness: a call has returned after the two stages of seed -> soil ->
\* location
C24_Witness ==
    /\ pc = "done"
    /\ SimplePath(mappings)
    /\ seeds # <<>>
    /\ PathLen(mappings, "Seed") = 2
    /\ iters = 2
\* C25: the working set after one stage is the concatenation, in the order
\* of the input intervals, of the pieces returned for each input interval;
\* the value returned is the smallest start among the intervals of the last
\* working set.
C25_ConcatAndMin ==
    [][/\ (pc = "loop" /\ pc' \in {"loop", "sort"})
            => ranges' = IF ranges = <<>>
                         THEN <<>>
                         ELSE StagePieces(mappings[entry].entries, ranges)
       /\ (pc = "sort" /\ pc' = "done")
            => result' = SetMin({ranges[i].start : i \in DOMAIN ranges})]_vars

\* C25 witness: two seed intervals went through a stage that split one of
\* them, and the value returned is not the start of the first piece
C25_Witness ==
    /\ pc = "done"
    /\ Len(seeds) = 2
    /\ Len(ranges) > 2
    /\ DOMAIN mappings = {"Seed"}
    /\ StagePieces(mappings["Seed"].entries, seeds)[1].start # result
    /\ MapRanges(mappings["Seed"].entries, seeds[1]) # MapRanges(mappings["Seed"].entries, seeds[2])
----------------------------------------------------------------------------
(* Day 5: unsigned arithmetic *)

\* C28: no unsigned subtraction of transform or adjust underflows: for every
\* interval and every rule with non-negative fields, each subtraction that
\* is evaluated has a minuend that is at least its subtrahend.
C28_NoUnderflow ==
    mpc = "called" /\ Len(mEntries) = 1
    => LET subs == transform_subtractions(mEntries[1], mRange)
       IN  /\ \A k \in DOMAIN subs : subs[k][1] >= subs[k][2]
           /\ \A k \in DOMAIN mOut : mOut[k].start >= 0 /\ mOut[k].len >= 0

\* C28 witness: transform cut an interval that starts at the end of the
\* rule's source range, for a rule that shifts downwards: four subtractions,
\* one of them with equal operands
C28_Witness ==
    /\ mpc = "called"
    /\ Len(mEntries) = 1
    /\ mEntries[1].from > mEntries[1].to
    /\ mRange.start = mEntries[1].from + mEntries[1].len
    /\ mRange.len > 0
    /\ Len(mOut) = 2
    /\ Len(transform_subtractions(mEntries[1], mRange)) = 4
----------------------------------------------------------------------------
(* Day 5: the seed line *)

\* the integers after the title, in order
SeedIntegers == FilterMapUsize(split_ascii_whitespace(split_once_on(aLine, ":").tail))

\* the line is `seeds:` followed by anything
SeedLine ==
    LET sp == split_once_on(aLine, ":")
    IN  sp.some /\ sp.head = <<"s", "e", "e", "d", "s">>

\* C26: try_from turns the integers after `seeds:` into intervals pairwise
\* and in order, the 2k-th and (2k+1)-th integer (counted from 0) being the
\* start and the length of the k-th interval; a seed line with an odd number
\* of integers gives a parse error: no almanac is built and nothing crashes.
C26_SeedPairs ==
    apc = "called" /\ SeedLine
    => IF Len(SeedIntegers) % 2 = 1
       THEN aOut.status = "err"
       ELSE /\ aOut.status = "ok"
            /\ Len(aOut.seeds) * 2 = Len(SeedIntegers)
            /\ \A k \in DOMAIN aOut.seeds :
                aOut.seeds[k] = [start |-> SeedIntegers[2 * k - 1],
                                 len |-> SeedIntegers[2 * k]]
----------------------------------------------------------------------------
(* Day 8: the number of steps to a node ending with Z *)

\* the node reached from wStart after k moves along the directions taken
\* cyclically; <<>> when a node on the way has no entry in the node table
RECURSIVE NodeAfter(_)
NodeAfter(k) ==
    IF k = 0
    THEN wStart
    ELSE LET before == NodeAfter(k - 1)
         IN  IF before \notin DOMAIN wMap.nodes
             THEN <<>>
             ELSE Node_next(wMap.nodes[before],
                            wMap.directions[((k - 1) % Len(wMap.directions)) + 1])

\* steps has returned Ok(wSteps) and wSteps is the least k >= 1 with the
\* node after k moves ending with Z
LeastStepsToZ ==
    wpc = "done"
    => /\ wSteps >= 1
       /\ ends_with(NodeAfter(wSteps), "Z")
       /\ \A j \in 1..(wSteps - 1) : ~ends_with(NodeAfter(j), "Z")

----------------------------------------------------------------------------
(* Day 10: the walk around the loop *)

\* the sides on which a pipe is open
OpenSides(pipe) ==
    CASE pipe = "Vertical" -> {"Upper", "Lower"}
      [] pipe = "Horizontal" -> {"Left", "Right"}
      [] pipe = "NorthAndEast" -> {"Upper", "Right"}
      [] pipe = "NorthAndWest" -> {"Upper", "Left"}
      [] pipe = "SouthAndWest" -> {"Lower", "Left"}
      [] pipe = "SouthAndEast" -> {"Lower", "Right"}
      [] OTHER -> {}

SideCell(c, s) ==
    CASE s = "Upper" -> Upper(c)
      [] s = "Lower" -> Lower(c)
      [] s = "Left" -> Left(c)
      [] s = "Right" -> Right(c)

\* the closed loops of correctly connected pipes of the grid that Start lies on
LoopsThroughStart ==
    {loop \in Loops :
        /\ lMap.start \in DOMAIN loop
        /\ \A c \in DOMAIN loop \ {lMap.start} :
            CellExists(lMap.grid, c) /\ PipeAt(lMap.grid, c) = loop[c]}

\* the cells next to Start that exist and are not ground, in the order in
\* which the neighbours are listed
StartNeighbours ==
    LET s == lMap.start
        there(c) == /\ c[1] >= 0
                    /\ c[2] >= 0
                    /\ CellExists(lMap.grid, c)
                    /\ PipeAt(lMap.grid, c) # "Ground"
    IN  SelectSeq(<<Lower(s), Upper(s), Right(s), Left(s)>>, there)

\* the first non-ground neighbour of Start is a tile of the loop that is
\* connected to Start
FirstOnLoop(loop) ==
    /\ StartNeighbours # <<>>
    /\ \E s \in OpenSides(loop[lMap.start]) : SideCell(lMap.start, s) = StartNeighbours[1]

\* C29: on a grid in which Start lies on a closed loop of correctly connected
\* pipes and the first non-ground neighbour of Start is a loop tile connected
\* to Start, the walk of cycle_len never steps onto ground, never steps back
\* onto the tile it just left, never reaches todo!() or unreachable!() in
\* Map::next, and is back at Start after exactly N moves, N being the number
\* of tiles of the loop.
C29_LoopWalk ==
    [][\A loop \in LoopsThroughStart :
        (FirstOnLoop(loop) /\ lpc = "loop")
        => /\ lpc' \in {"loop", "done"}
           /\ lpc' = "loop"
                => /\ lWalk'.curr \in DOMAIN loop
                   /\ PipeAt(lMap.grid, lWalk'.curr) # "Ground"
                   /\ lWalk.prev.some => lWalk'.curr # lWalk.prev.pos
                   /\ lWalk'.len < Cardinality(DOMAIN loop)
           /\ lpc' = "done" => lWalk'.len = Cardinality(DOMAIN loop)]_vars
====
